---- MODULE Spec2Model ----
(***************************************************************************)
(* State-machine model of the WoT automation repository:                   *)
(*   - tools/run_game_flow.py  main(): the in-game tick loop (phase/stage  *)
(*     machine, stuck detector, grace wait, exit code);                    *)
(*   - tools/run_all.py, tools/run_one.py and                              *)
(*     wotbot/launcher/login_flow.py: the per-account batch driver, the    *)
(*     per-account process and one launcher login attempt.                 *)
(* Time is counted in whole seconds.                                       *)
(***************************************************************************)
EXTENDS Integers, Sequences, FiniteSets, TLC

(***************************************************************************)
(* Bounds of the model (inputs of the program, not program constants).     *)
(***************************************************************************)
\* args.max_secs of run_game_flow (--max-secs)
MaxSecs == 8
\* args.max_secs of the runs that watch the stuck detector
MaxSecsStuck == 23
\* longest time one executed tick's handler may take, in seconds
MaxTickSecs == 1
\* time.time() when the loop starts (any positive instant)
StartTime == 1
\* most lines of an accounts file
MaxLines == 2
\* most scroll steps a search for a tank uses
MaxScroll == 3
\* most files of one scene directory
MaxTemplates == 2

(***************************************************************************)
(* Program constants.                                                      *)
(***************************************************************************)
STUCK_THRESHOLD == 10
\* seconds a terminal scene is waited on before the game is closed
GRACE_SECS == 5
\* seconds waited after the reward button click (stages 33 and 53)
REWARD_WAIT_SECS == 5

PHASE_PRE_ALLOWED == {"game_loading", "game_cutscena", "game_tutorial1"}
PHASE_TUTORIAL_ALLOWED ==
    {"game_tutorial1", "game_tutorial2", "game_tutorial_menu", "game_tutorial_menu_conf"}
FinalScenes == {"game_ungar", "game_nagrada_code"}

(***************************************************************************)
(* Scene labels.  A label is the name of a template directory; classify    *)
(* returns the label of the nearest template, or nothing for an empty      *)
(* index.                                                                  *)
(***************************************************************************)
\* directory names that start with "game_"
GameScenes ==
    {"game_loading", "game_cutscena", "game_tutorial1", "game_tutorial2",
     "game_tutorial_menu", "game_tutorial_menu_conf", "game_video",
     "game_nagrada_screen1", "game_vibor_tanka", "game_nagrada_screen2",
     "game_ungar", "game_nagrada_code"}
\* directory names without the prefix that the loop accepts as aliases:
\* alias_names, and every name starting with "nagrada" or "tutorial"
AliasScenes ==
    {"ungar", "loading", "cutscena", "video", "vibor_tanka",
     "nagrada_screen1", "nagrada_screen2", "nagrada_code",
     "tutorial1", "tutorial2", "tutorial_menu", "tutorial_menu_conf"}
\* launcher scenes live in the same dataset root
LauncherScenes == {"main_menu"}

NoMatch == "None"
NoScene == "None"

\* state.startswith("game_")
HasGamePrefix(raw) == raw \in GameScenes
\* state.startswith(alias_prefixes) or state in alias_names
IsAlias(raw) == raw \in AliasScenes
\* the label after alias normalisation; NoScene when the tick skips it
NormalizeState(raw) ==
    IF HasGamePrefix(raw) THEN raw
    ELSE IF IsAlias(raw) THEN "game_" \o raw
    ELSE NoScene

\* the datasets the loop is run against
PrefixedIndex == GameScenes \cup LauncherScenes
AliasIndex == AliasScenes
EmptyIndex == {}
Indexes == {PrefixedIndex, AliasIndex, EmptyIndex}
\* the datasets of one or two scenes
PairIndexes == {{a, b} : a, b \in PrefixedIndex}

\* clf.classify(img): some label of the index, nothing for an empty index
ClassifyResults(idx) == IF idx = {} THEN {NoMatch} ELSE idx

VARIABLES
    \* ---- run_game_flow.main ----
    index,              \* scene labels held by the classifier after load()
    max_secs,           \* args.max_secs
    no_hotkeys,         \* args.no_hotkeys (or the keyboard module is missing)
    clock,              \* time.time()
    last_tick,
    phase,
    classify_paused,
    post_stage,
    reward_click_time,
    final_wait_start,
    reached_ungar,
    stop_requested,
    user_paused,
    chosen_tanks,
    last_state_seen,
    state_repeat_count,
    gpc,                \* "idle" | "loop" | "after_loop" | "exited"
    loop_end,           \* how the while loop ended: "none" | "budget" | "stop" | "final"
    exit_code,          \* argument of sys.exit, -1 while running
    branch,             \* branch of the loop body the last iteration took
    \* ---- observers of the run (not read by the program) ----
    run_scene,          \* the scene of the latest accepted classification
    run_len,            \* accepted classifications of run_scene in a row, up to now
    run_recoveries,     \* recoveries fired during that run
    term_first,         \* clock of the first accepted final scene in phase post
    term_held,          \* a final scene was accepted GRACE_SECS or more after term_first
    seen7_first,        \* clock of the first final-scene tick handled at stage 7
    term_run,           \* clock at which the current unbroken series of accepted final scenes began
    closes,             \* the calls of _close_game so far
    \* ---- the result file of run_game_flow.main ----
    res_requested,      \* args.result_file is not empty
    res_writes,         \* the texts written to the result file, in order
    res_end             \* "none" | "written" | "not_requested" | "io_error"

rvars == <<res_requested, res_writes, res_end>>

gvars == <<index, max_secs, no_hotkeys, clock, last_tick, phase, classify_paused, post_stage,
           reward_click_time, final_wait_start, reached_ungar, stop_requested,
           user_paused, chosen_tanks, last_state_seen, state_repeat_count,
           gpc, loop_end, exit_code, branch,
           run_scene, run_len, run_recoveries, term_first, term_held,
           seen7_first, term_run, closes, rvars>>

VARIABLES
    \* ---- run_all.main ----
    setup_ok,           \* dataset, templates, accounts file and classifier are usable
    accounts_file,      \* the accounts file: a sequence of lines, each a sequence of characters
    queue,              \* the credentials _read_accounts yields, in order
    acct,               \* index in queue of the account being processed
    ra_pc,              \* "idle" | "start" | "next" | "spawn" | "wait" | "record" | "done"
    ra_attempt,         \* run-one attempt number
    rc,                 \* return code of the last run_one process
    success_lists,      \* success files: list name -> sequence of credentials
    error_list,         \* the error file: sequence of credentials
    \* ---- observers of run_all ----
    file_before,        \* the accounts file before the latest _remove_account_line call
    appends,            \* <<success appends, error appends>> for the current account
    removes,            \* _remove_account_line calls for the current account
    \* ---- run_one.main (the child process of run_all) ----
    ro_pc,              \* "none" | "start" | "login_loop" | "in_login" | "game" | "exited"
    ro_attempt,         \* login attempt number
    ok,
    invalid_creds,
    ro_exit,            \* exit code of the process (-1 while it runs)
    \* ---- login_once (called by run_one) ----
    lo_pc,              \* "none" | "wait_main" | "wait_main2" | "states" | "wait_return"
                        \* | "wait_window" | "returned"
    lo_i,               \* iterations done of the current polling loop
    made_progress,
    lo_result,          \* "none" | "True" | "False" | the name of the exception raised
    \* ---- observers of run_one and login_once ----
    lo_end,             \* why the latest login_once call ended
    submitted,          \* the latest login_once call submitted the credentials
    acted,              \* the latest login_once call performed a progress action
    lo_search,          \* the logout search of the latest state-loop iteration
    ro_cause,           \* outcome class of the current run_one process
    class_codes,        \* outcome class -> exit codes run_one processes ended with
    inv_seen,           \* LoginInvalidError was raised for the current account
    calls_after_invalid,   \* login_once calls started for the account after that
    spawns_after_invalid   \* run_one processes started for the account after that

ravars == <<setup_ok, accounts_file, queue, acct, ra_pc, ra_attempt, rc,
            success_lists, error_list, file_before, appends, removes>>
rovars == <<ro_pc, ro_attempt, ok, invalid_creds, ro_exit>>
lovars == <<lo_pc, lo_i, made_progress, lo_result>>
obvars == <<lo_end, submitted, acted, lo_search, ro_cause, class_codes, inv_seen, calls_after_invalid,
            spawns_after_invalid>>
bvars == <<ravars, rovars, lovars, obvars>>

VARIABLES
    \* ---- the scroll memory ----
    spc,                \* "idle" | "scroll" | "classifier": the pure-function model that runs
    scroll_store,       \* tank id -> the count in its file, NoFile without a file
    scroll_prev,        \* scroll_store before the latest write
    scroll_last,        \* <<tank id, count>> of the latest write
    find_call,          \* the latest _find_and_click_tank_by_memory call: inputs and outcome
    \* ---- the scene classifier ----
    cl_dataset,         \* the dataset root: entry name -> [is_dir, files]
    cl_query,           \* the hash of the image given to classify
    cl_index,           \* state_to_hashes of the first instance
    cl_total,           \* what its latest load returned, -1 before any load
    cl_first,           \* index and count after its first load
    cl_loads,           \* how often load ran on it
    cl_other,           \* index and count of a second instance, -1 before its load
    cl_asked,           \* the index classify was called on
    cl_match            \* what classify returned

clvars == <<cl_dataset, cl_query, cl_index, cl_total, cl_first, cl_loads, cl_other,
            cl_asked, cl_match>>
VARIABLES
    \* ---- firstmail_buy.main, --all-available: the worker pool ----
    fm_pc,              \* worker -> "head" | "buy" | "acquire" | "check" | "open" | "write"
                        \* | "count_read" | "count_write" | "left" | "done"
    fm_mb,              \* worker -> the mailbox buy_mailbox returned to it
    fm_lock,            \* the worker holding lock, 0 when it is free
    fm_stop,            \* stop_event
    fm_seen,            \* seen
    fm_file,            \* the emails of the lines of the output file
    fm_bought,          \* bought
    fm_tmp,             \* worker -> the value of bought it read for bought += 1
    \* ---- observers of the pool ----
    fm_open,            \* the workers that have the output file open
    fm_late             \* worker -> the lines it appended while stop_event was set

fmvars == <<fm_pc, fm_mb, fm_lock, fm_stop, fm_seen, fm_file, fm_bought, fm_tmp, fm_open, fm_late>>
VARIABLES
    \* ---- wg_register_from_accounts.main: the pool of worker threads ----
    wg_items,           \* items: for each mail, whether it has a mailbox password
    wg_next,            \* index in items of the next item a thread takes
    wg_pc,              \* thread -> "idle" | "proxy" | "lock" | "get" | "next" | "store"
                        \* | "unlock" | "register" | "out" | "count"
    wg_item,            \* thread -> the item it works on, 0 for none
    wg_proxies,         \* proxies_raw
    wg_cycle,           \* position of proxy_cycle: index in proxies_raw of the next entry
    wg_plock,           \* the thread holding proxy_lock, 0 when it is free
    wg_map,             \* thread_proxy_map
    wg_raw,             \* thread -> raw of its get_thread_proxy_raw call
    wg_out,             \* the items of the lines appended to the accounts file
    wg_processed,       \* processed
    \* ---- observers of the pool ----
    wg_first,           \* the threads in the order next(proxy_cycle) served them
    wg_given,           \* thread -> the values get_thread_proxy_raw returned to it
    wg_calls            \* thread -> its calls of get_thread_proxy_raw that returned

wgvars == <<wg_items, wg_next, wg_pc, wg_item, wg_proxies, wg_cycle, wg_plock, wg_map, wg_raw,
            wg_out, wg_processed, wg_first, wg_given, wg_calls>>
VARIABLES
    \* ---- run_game_flow: the cached window handle ----
    hwnd_cache,         \* _GAME_HWND_CACHE, 0 for None
    hw_windows,         \* the handles for which win32gui.IsWindow is true
    hw_titled,          \* the handles the title search finds
    \* ---- observers of the cache ----
    hw_call,            \* the latest call: "none" | "get" | "close"
    hw_before,          \* the cache, the windows and the titled windows when it began
    hw_ret,             \* what _get_game_hwnd returned, in either call
    hw_searched,        \* the latest _get_game_hwnd searched by title
    hw_end              \* how _close_game ended: "none" | "no_window" | "sc_close"
                        \* | "wm_close" | "killed" | "survived"

hwvars == <<hwnd_cache, hw_windows, hw_titled, hw_call, hw_before, hw_ret, hw_searched, hw_end>>
tvars == <<fmvars, wgvars, hwvars>>

xvars == <<spc, scroll_store, scroll_prev, scroll_last, find_call, clvars, tvars>>

vars == <<gvars, bvars, xvars>>

t0 == StartTime

(***************************************************************************)
(* The loop body of run_game_flow.main, as operators on the record of the  *)
(* loop's local variables.  Each returns the record after its piece of     *)
(* code.                                                                   *)
(***************************************************************************)
Locals ==
    [phase |-> phase, classify_paused |-> classify_paused, post_stage |-> post_stage,
     reward_click_time |-> reward_click_time, final_wait_start |-> final_wait_start,
     reached_ungar |-> reached_ungar, chosen_tanks |-> chosen_tanks,
     last_state_seen |-> last_state_seen, state_repeat_count |-> state_repeat_count,
     closes |-> closes, brk |-> FALSE, branch |-> "none"]

At(s, b) == [s EXCEPT !.branch = b]

\* lines 631-637: a final scene in phase post forces the final stage
FinalSceneDispatch(s, state) ==
    IF state \in FinalScenes /\ s.post_stage < 7 THEN [s EXCEPT !.post_stage = 7] ELSE s

\* lines 632-634: a final scene outside phase post ends the iteration
FinalSceneIgnored(s, state) == state \in FinalScenes /\ s.phase # "post"

\* a variant of VideoSwitch without the test of the phase
VideoSwitchAnyPhase(s, state) ==
    IF state = "game_video" THEN [s EXCEPT !.phase = "post", !.post_stage = 0] ELSE s

\* lines 639-642: game_video before phase post switches to post, stage 0
VideoSwitch(s, state) ==
    IF state = "game_video" /\ s.phase # "post"
    THEN [s EXCEPT !.phase = "post", !.post_stage = 0]
    ELSE s

\* a variant of PhaseFiltered that lets every scene through
PhaseFilteredNever(s, state) == FALSE

\* lines 644-649: the phase allow-lists
PhaseFiltered(s, state) ==
    \/ s.phase = "pre" /\ state \notin PHASE_PRE_ALLOWED
    \/ s.phase = "tutorial" /\ state \notin PHASE_TUTORIAL_ALLOWED

\* lines 653-657
StuckDetect(s, state) ==
    IF state = s.last_state_seen
    THEN [s EXCEPT !.state_repeat_count = @ + 1]
    ELSE [s EXCEPT !.last_state_seen = state, !.state_repeat_count = 1]

\* a variant of StuckReached that fires one tick late
StuckReachedLate(s) == s.state_repeat_count > STUCK_THRESHOLD

\* line 659
StuckReached(s) == s.state_repeat_count >= STUCK_THRESHOLD

\* a variant of StuckRecover that also forgets the scene
StuckRecoverForgetScene(s) ==
    At([s EXCEPT !.state_repeat_count = 0, !.last_state_seen = NoScene], "recovery")

\* a variant of StuckRecover that restarts the counter at 1
StuckRecoverToOne(s) == At([s EXCEPT !.state_repeat_count = 1], "recovery")

\* lines 660-694: the counter is reset, the scene's recovery input is sent
\* (keys and clicks change no local variable), the iteration ends
StuckRecover(s) == At([s EXCEPT !.state_repeat_count = 0], "recovery")

\* lines 696-701
IsLoadingTick(state) == state = "game_loading"

\* lines 703-729: Enter on a cutscene or the first tutorial scene; the
\* tutorial scene also runs the mechanical skip and pauses classification
TutorialEnter(s, state) ==
    IF state = "game_tutorial1"
    THEN At([s EXCEPT !.phase = "tutorial", !.classify_paused = TRUE], "tutorial1")
    ELSE At(s, "cutscena")

\* a variant of PausedConfirm that leaves the phase alone
PausedConfirmKeepsPhase(s) ==
    At([s EXCEPT !.classify_paused = FALSE], "paused_confirm")

\* lines 743-750: classification paused: confirm, resume, go to post
PausedConfirm(s) ==
    At([s EXCEPT !.classify_paused = FALSE, !.phase = "post"], "paused_confirm")

\* lines 752-761
MenuConf(s) == At([s EXCEPT !.phase = "post"], "tutorial_menu_conf")

(***************************************************************************)
(* The post-phase pipeline.  m is the label classify returns for the       *)
(* tick's image when a stage handler classifies it again (the label as     *)
(* stored, before alias normalisation).                                    *)
(***************************************************************************)
\* lines 766-789: stage 0 waits for game_video and sends the skip keys
PostStage0(s, m) ==
    IF m = "game_video" THEN At([s EXCEPT !.post_stage = 1], "stage0_video")
    ELSE At(s, "stage0_wait")

\* lines 792-809
PostStage1(s, m) ==
    IF m = "game_vibor_tanka" THEN At([s EXCEPT !.post_stage = 2], "stage1_to_2")
    ELSE At(s, "stage1_enter")

\* a variant of PostStage2 that goes on to the second tank at once
PostStage2ToSecondTank(s, m, tank_ok) ==
    IF m = "game_nagrada_screen1" THEN At([s EXCEPT !.post_stage = 1], "stage2_back_to_1")
    ELSE IF m # "game_vibor_tanka" THEN At(s, "stage2_wait")
    ELSE IF ~tank_ok THEN At(s, "stage2_not_found")
    ELSE At([s EXCEPT !.chosen_tanks = Append(@, "is7"), !.post_stage = 42], "stage2_selected")

\* lines 812-834: tank_ok is the result of _find_and_click_tank_by_memory
PostStage2(s, m, tank_ok) ==
    IF m = "game_nagrada_screen1" THEN At([s EXCEPT !.post_stage = 1], "stage2_back_to_1")
    ELSE IF m # "game_vibor_tanka" THEN At(s, "stage2_wait")
    ELSE IF ~tank_ok THEN At(s, "stage2_not_found")
    ELSE At([s EXCEPT !.chosen_tanks = Append(@, "is7"), !.post_stage = 31], "stage2_selected")

\* lines 840-844
PostStage31(s) == At([s EXCEPT !.post_stage = 32], "stage31")

\* lines 846-858 and 901-910: wait for game_nagrada_screen2, click the reward
\* button; reward_ok is the result of the three click attempts, endt the
\* clock when the click returned
ClaimReward(s, m, reward_ok, endt, next_stage, name) ==
    IF m # "game_nagrada_screen2" THEN At(s, name \o "_wait")
    ELSE IF reward_ok
         THEN At([s EXCEPT !.reward_click_time = endt, !.post_stage = next_stage],
                 name \o "_clicked")
         ELSE At(s, name \o "_missed")

\* lines 860-871 and 912-922: wait REWARD_WAIT_SECS after the click, then Enter
AcknowledgeReward(s, now, next_stage, name) ==
    IF now - s.reward_click_time < REWARD_WAIT_SECS THEN At(s, name \o "_wait")
    ELSE At([s EXCEPT !.post_stage = next_stage], name \o "_done")

\* lines 874-879
PostStage4(s, m) ==
    IF m = "game_vibor_tanka" THEN At([s EXCEPT !.post_stage = 42], "stage4_to_42")
    ELSE At(s, "stage4_wait")

\* lines 881-893
PostStage42(s, tank_ok) ==
    IF ~tank_ok THEN At(s, "stage42_not_found")
    ELSE At([s EXCEPT !.chosen_tanks = Append(@, "fv4005"), !.post_stage = 51],
            "stage42_selected")

\* lines 895-899
PostStage51(s) == At([s EXCEPT !.post_stage = 52], "stage51")

\* line 930: the final-stage handler's own test of the tick's label
IsFinalLabel(m) == m \in FinalScenes

\* a variant of StartFinalWait that restarts the wait on every sighting
StartFinalWaitRestart(s, now) == [s EXCEPT !.final_wait_start = now]

\* lines 931-932
StartFinalWait(s, now) ==
    IF s.final_wait_start = 0 THEN [s EXCEPT !.final_wait_start = now] ELSE s

\* line 933
GraceOver(s, now) == now - s.final_wait_start >= GRACE_SECS

\* a variant of PostStage7 that closes the game as soon as the wait begins
PostStage7ClosesEarly(s, m, now) ==
    IF IsFinalLabel(m)
    THEN LET w == StartFinalWait(s, now)
         IN  IF GraceOver(w, now)
             THEN At([w EXCEPT !.closes = @ + 1, !.reached_ungar = TRUE, !.brk = TRUE],
                     "stage7_success")
             ELSE At([w EXCEPT !.closes = @ + 1], "stage7_grace")
    ELSE At(s, "stage7_enter")

\* lines 926-943: the final stage
PostStage7(s, m, now) ==
    IF IsFinalLabel(m)
    THEN LET w == StartFinalWait(s, now)
         IN  IF GraceOver(w, now)
             THEN \* line 934: _close_game(), then the flag, then break
                  At([w EXCEPT !.closes = @ + 1, !.reached_ungar = TRUE, !.brk = TRUE],
                     "stage7_success")
             ELSE At(w, "stage7_grace")
    ELSE At(s, "stage7_enter")

\* lines 764-943: the stage handlers in the order the loop body tries them
PostPipeline(s, m, now, endt, tank_ok, reward_ok) ==
    IF s.phase # "post" THEN At(s, "no_handler")
    ELSE IF s.post_stage = 0 THEN PostStage0(s, m)
    ELSE IF s.post_stage = 1 THEN PostStage1(s, m)
    ELSE IF s.post_stage = 2 THEN PostStage2(s, m, tank_ok)
    ELSE IF s.post_stage = 31 THEN PostStage31(s)
    ELSE IF s.post_stage = 32 THEN ClaimReward(s, m, reward_ok, endt, 33, "stage32")
    ELSE IF s.post_stage = 33 THEN AcknowledgeReward(s, now, 4, "stage33")
    ELSE IF s.post_stage = 4 THEN PostStage4(s, m)
    ELSE IF s.post_stage = 42 THEN PostStage42(s, tank_ok)
    ELSE IF s.post_stage = 51 THEN PostStage51(s)
    ELSE IF s.post_stage = 52 THEN ClaimReward(s, m, reward_ok, endt, 53, "stage52")
    ELSE IF s.post_stage = 53 THEN AcknowledgeReward(s, now, 7, "stage53")
    ELSE IF s.post_stage = 7 THEN PostStage7(s, m, now)
    ELSE At(s, "no_handler")

\* lines 608-943: one executed iteration of the loop body on the label raw
LoopBody(s, raw, now, endt, tank_ok, reward_ok) ==
    IF s.classify_paused
    THEN \* lines 608-610 and 743-750: the block of lines 610-694 (the
         \* classification, the filters and the stuck detector) is skipped
         PausedConfirm(s)
    ELSE IF raw = NoMatch THEN At(s, "no_match")
    ELSE LET state == NormalizeState(raw) IN
         IF state = NoScene THEN At(s, "non_game")
         ELSE IF FinalSceneIgnored(s, state) THEN At(s, "final_ignored")
         ELSE LET a == VideoSwitch(FinalSceneDispatch(s, state), state) IN
              IF PhaseFiltered(a, state) THEN At(a, "filtered")
              ELSE LET b == StuckDetect(a, state) IN
                   IF StuckReached(b) THEN StuckRecover(b)
                   ELSE IF IsLoadingTick(state) THEN At(b, "loading")
                   ELSE IF state \in {"game_cutscena", "game_tutorial1"}
                        THEN TutorialEnter(b, state)
                   ELSE IF state = "game_tutorial_menu" THEN At(b, "tutorial_menu")
                   ELSE IF state = "game_tutorial_menu_conf" THEN MenuConf(b)
                   ELSE PostPipeline(b, raw, now, endt, tank_ok, reward_ok)

\* branches on which the iteration did not reach the stuck detector
SkippedBranches == {"no_match", "non_game", "final_ignored", "filtered", "paused_confirm"}

\* a variant of UniqTanks that keeps every element
UniqTanksKeepAll(chosen, seen) == chosen

\* lines 952-957: the elements of chosen that are not empty and not in seen
\* yet, in the order of their first occurrence
RECURSIVE UniqTanks(_, _)
UniqTanks(chosen, seen) ==
    IF chosen = <<>> THEN <<>>
    ELSE LET s == Head(chosen)
         IN  IF s # "" /\ s \notin seen
             THEN <<s>> \o UniqTanks(Tail(chosen), seen \cup {s})
             ELSE UniqTanks(Tail(chosen), seen)

\* line 958: ",".join(uniq)
RECURSIVE JoinComma(_)
JoinComma(uniq) ==
    IF uniq = <<>> THEN ""
    ELSE IF Len(uniq) = 1 THEN uniq[1]
    ELSE uniq[1] \o "," \o JoinComma(Tail(uniq))

\* lines 952-958: the text written to the result file
ResultPayload(chosen) == JoinComma(UniqTanks(chosen, {}))

\* lines 949-960: the result file after the loop; an exception of mkdir or
\* write_text is swallowed and leaves the file as it was
WriteResult(requested, chosen, io_ok, writes) ==
    IF ~requested THEN [writes |-> writes, end |-> "not_requested"]
    ELSE IF ~io_ok THEN [writes |-> writes, end |-> "io_error"]
    ELSE [writes |-> Append(writes, ResultPayload(chosen)), end |-> "written"]

\* a variant of ExitCode that ignores the result
ExitCodeIgnoresResult(reached) == 0

\* line 962
ExitCode(reached) == IF reached THEN 0 ELSE 2

\* line 576
BudgetLeft == clock - t0 < max_secs

(***************************************************************************)
(* Actions of run_game_flow.main.                                          *)
(***************************************************************************)
\* lines 540-556: the state after construction
InitLoopLocals ==
    /\ clock = StartTime
    /\ last_tick = 0
    /\ phase = "pre"
    /\ classify_paused = FALSE
    /\ post_stage = 0
    /\ reward_click_time = 0
    /\ final_wait_start = 0
    /\ reached_ungar = FALSE
    /\ stop_requested = FALSE
    /\ user_paused = FALSE
    /\ chosen_tanks = <<>>
    /\ last_state_seen = NoScene
    /\ state_repeat_count = 0
    /\ gpc = "loop"
    /\ loop_end = "none"
    /\ exit_code = -1
    /\ branch = "none"
    /\ run_scene = NoScene
    /\ run_len = 0
    /\ run_recoveries = 0
    /\ term_first = 0
    /\ term_held = FALSE
    /\ seen7_first = 0
    /\ term_run = 0
    /\ closes = 0

\* line 93 and run_all.py lines 111-119: run_all always names a result file
InitLoop ==
    /\ InitLoopLocals
    /\ res_requested = TRUE
    /\ res_writes = <<>>
    /\ res_end = "none"

\* lines 563-565: the stop hotkey's callback
ReqStop ==
    /\ UNCHANGED <<bvars, xvars, rvars>>
    /\ gpc = "loop"
    /\ ~no_hotkeys
    /\ ~stop_requested
    /\ stop_requested' = TRUE
    /\ UNCHANGED <<index, max_secs, no_hotkeys, clock, last_tick, phase, classify_paused, post_stage,
                   reward_click_time, final_wait_start, reached_ungar,
                   user_paused, chosen_tanks, last_state_seen, state_repeat_count,
                   gpc, loop_end, exit_code, branch,
                   run_scene, run_len, run_recoveries, term_first, term_held,
                   seen7_first, term_run, closes>>

\* lines 566-569: the pause hotkey's callback
TogglePause ==
    /\ UNCHANGED <<bvars, xvars, rvars>>
    /\ gpc = "loop"
    /\ ~no_hotkeys
    /\ user_paused' = ~user_paused
    /\ UNCHANGED <<index, max_secs, no_hotkeys, clock, last_tick, phase, classify_paused, post_stage,
                   reward_click_time, final_wait_start, reached_ungar,
                   stop_requested, chosen_tanks, last_state_seen, state_repeat_count,
                   gpc, loop_end, exit_code, branch,
                   run_scene, run_len, run_recoveries, term_first, term_held,
                   seen7_first, term_run, closes>>

\* everything but the clock, the loop position and the branch label
LoopLocalsUnchanged ==
    UNCHANGED <<index, max_secs, no_hotkeys, phase, classify_paused, post_stage,
                reward_click_time, final_wait_start, reached_ungar,
                stop_requested, user_paused, chosen_tanks, last_state_seen,
                state_repeat_count, exit_code,
                run_scene, run_len, run_recoveries, term_first, term_held,
                seen7_first, term_run, closes>>

\* a variant of StopSeen that tests the pause flag first
StopSeenUnlessPaused == stop_requested /\ ~user_paused

\* line 578: the stop flag, read first at the start of an iteration
StopSeen == stop_requested

\* line 576: the while condition fails
BudgetExpired ==
    /\ UNCHANGED <<bvars, xvars, rvars>>
    /\ gpc = "loop"
    /\ ~BudgetLeft
    /\ gpc' = "after_loop"
    /\ loop_end' = "budget"
    /\ UNCHANGED <<clock, last_tick, branch>>
    /\ LoopLocalsUnchanged

\* lines 578-580
StopBreak ==
    /\ UNCHANGED <<bvars, xvars, rvars>>
    /\ gpc = "loop"
    /\ BudgetLeft
    /\ StopSeen
    /\ gpc' = "after_loop"
    /\ loop_end' = "stop"
    /\ UNCHANGED <<clock, last_tick, branch>>
    /\ LoopLocalsUnchanged

\* a variant of PauseSleep in which paused time does not count against the
\* budget
PauseSleepFrozenClock ==
    /\ UNCHANGED <<bvars, xvars, rvars>>
    /\ gpc = "loop"
    /\ BudgetLeft
    /\ ~StopSeen
    /\ user_paused
    /\ branch' = "paused"
    /\ UNCHANGED <<gpc, loop_end, last_tick, clock>>
    /\ UNCHANGED <<index, max_secs, no_hotkeys, phase, classify_paused, post_stage,
                   reward_click_time, final_wait_start, reached_ungar,
                   stop_requested, user_paused, chosen_tanks, last_state_seen,
                   state_repeat_count, exit_code, run_scene, run_len, run_recoveries,
                   term_first, term_held, seen7_first, term_run, closes>>

\* a variant of PauseSleep that feeds the stuck detector while paused
PauseSleepCounting ==
    /\ UNCHANGED <<bvars, xvars, rvars>>
    /\ gpc = "loop"
    /\ BudgetLeft
    /\ ~StopSeen
    /\ user_paused
    /\ clock' = clock + 1
    /\ branch' = "paused"
    /\ state_repeat_count' = state_repeat_count + 1
    /\ UNCHANGED <<gpc, loop_end, last_tick>>
    /\ UNCHANGED <<index, max_secs, no_hotkeys, phase, classify_paused, post_stage,
                   reward_click_time, final_wait_start, reached_ungar,
                   stop_requested, user_paused, chosen_tanks, last_state_seen,
                   exit_code, run_scene, run_len, run_recoveries, term_first,
                   term_held, seen7_first, term_run, closes>>

\* lines 581-583: paused iterations only sleep
PauseSleep ==
    /\ UNCHANGED <<bvars, xvars, rvars>>
    /\ gpc = "loop"
    /\ BudgetLeft
    /\ ~StopSeen
    /\ user_paused
    /\ clock' = clock + 1
    /\ branch' = "paused"
    /\ UNCHANGED <<gpc, loop_end, last_tick>>
    /\ LoopLocalsUnchanged

\* lines 585-588: less than a second since the last executed tick
ThrottleSleep ==
    /\ UNCHANGED <<bvars, xvars, rvars>>
    /\ gpc = "loop"
    /\ BudgetLeft
    /\ ~StopSeen
    /\ ~user_paused
    /\ clock - last_tick < 1
    /\ clock' = clock + 1
    /\ branch' = "throttle"
    /\ UNCHANGED <<gpc, loop_end, last_tick>>
    /\ LoopLocalsUnchanged

\* lines 589-598: the window or its image is not available
CaptureFail ==
    /\ UNCHANGED <<bvars, xvars, rvars>>
    /\ gpc = "loop"
    /\ BudgetLeft
    /\ ~StopSeen
    /\ ~user_paused
    /\ clock - last_tick >= 1
    /\ last_tick' = clock
    /\ branch' = "no_capture"
    /\ UNCHANGED <<gpc, loop_end, clock>>
    /\ LoopLocalsUnchanged

\* what _find_and_click_tank_by_memory may return; it is called at stages 2
\* and 42 only
TankResults == IF post_stage \in {2, 42} THEN BOOLEAN ELSE {FALSE}
\* what the reward button clicks may return; tried at stages 32 and 52 only
RewardResults == IF post_stage \in {32, 52} THEN BOOLEAN ELSE {FALSE}

\* lines 589-943: an executed tick: capture, classify, dispatch
Tick ==
    /\ UNCHANGED <<bvars, xvars, rvars>>
    /\ gpc = "loop"
    /\ BudgetLeft
    /\ ~StopSeen
    /\ ~user_paused
    /\ clock - last_tick >= 1
    /\ \E raw \in ClassifyResults(index), d \in 0..MaxTickSecs,
          tank_ok \in TankResults, reward_ok \in RewardResults :
       \E res \in {LoopBody(Locals, raw, clock, clock + d, tank_ok, reward_ok)} :
         LET now == clock
             state == IF classify_paused \/ raw = NoMatch THEN NoScene
                      ELSE NormalizeState(raw)
             accepted == res.branch \notin SkippedBranches
             final_acc == accepted /\ state \in FinalScenes
             at7 == res.branch \in {"stage7_grace", "stage7_success"}
             first == IF final_acc /\ term_first = 0 THEN now ELSE term_first
         IN  /\ last_tick' = now
             /\ clock' = now + d
             /\ phase' = res.phase
             /\ classify_paused' = res.classify_paused
             /\ post_stage' = res.post_stage
             /\ reward_click_time' = res.reward_click_time
             /\ final_wait_start' = res.final_wait_start
             /\ reached_ungar' = res.reached_ungar
             /\ chosen_tanks' = res.chosen_tanks
             /\ last_state_seen' = res.last_state_seen
             /\ state_repeat_count' = res.state_repeat_count
             /\ branch' = res.branch
             /\ gpc' = IF res.brk THEN "after_loop" ELSE "loop"
             /\ loop_end' = IF res.brk THEN "final" ELSE loop_end
             /\ run_scene' = IF accepted THEN state ELSE run_scene
             /\ run_len' = IF ~accepted THEN run_len
                           ELSE IF state = run_scene THEN run_len + 1 ELSE 1
             /\ run_recoveries' =
                  IF ~accepted THEN run_recoveries
                  ELSE (IF state = run_scene THEN run_recoveries ELSE 0)
                       + (IF res.branch = "recovery" THEN 1 ELSE 0)
             /\ term_first' = first
             /\ term_held' = (term_held \/ (final_acc /\ now - first >= GRACE_SECS))
             /\ seen7_first' = IF at7 /\ seen7_first = 0 THEN now ELSE seen7_first
             /\ term_run' = IF final_acc THEN (IF term_run = 0 THEN now ELSE term_run)
                             ELSE 0
             /\ closes' = res.closes
             /\ UNCHANGED <<index, max_secs, no_hotkeys, stop_requested, user_paused, exit_code>>

\* lines 947-962: after the loop
Exit ==
    /\ UNCHANGED <<bvars, xvars>>
    /\ gpc = "after_loop"
    /\ gpc' = "exited"
    /\ \E io_ok \in BOOLEAN :
          \E w \in {WriteResult(res_requested, chosen_tanks, io_ok, res_writes)} :
             /\ res_writes' = w.writes
             /\ res_end' = w.end
    /\ UNCHANGED res_requested
    /\ exit_code' = ExitCode(reached_ungar)
    /\ UNCHANGED <<index, max_secs, no_hotkeys, clock, last_tick, phase, classify_paused, post_stage,
                   reward_click_time, final_wait_start, reached_ungar, stop_requested,
                   user_paused, chosen_tanks, last_state_seen, state_repeat_count,
                   loop_end, branch,
                   run_scene, run_len, run_recoveries, term_first, term_held,
                   seen7_first, term_run, closes>>

NextGame ==
    \/ ReqStop
    \/ TogglePause
    \/ BudgetExpired
    \/ StopBreak
    \/ PauseSleep
    \/ ThrottleSleep
    \/ CaptureFail
    \/ Tick
    \/ Exit

\* the flow without hotkeys (--no-hotkeys)
NextNoHotkeys ==
    \/ BudgetExpired
    \/ ThrottleSleep
    \/ CaptureFail
    \/ Tick
    \/ Exit

(***************************************************************************)
(* The accounts file (login_flow._read_accounts, run_all._remove_account_  *)
(* line).  A line is a sequence of characters; "BOM" is U+FEFF, "TAB" the  *)
(* tab and "SP" the space.                                                 *)
(***************************************************************************)
\* str.strip() and str.split() treat these as whitespace; U+FEFF is not one
Whitespace == {"SP", "TAB"}
\* login_flow.py line 233: the characters of strip of U+FEFF, newline, CR and space a line can hold
ReaderStripChars == {"BOM", "SP"}

RECURSIVE LStrip(_, _)
LStrip(s, cs) == IF s # <<>> /\ Head(s) \in cs THEN LStrip(Tail(s), cs) ELSE s
RECURSIVE RStrip(_, _)
RStrip(s, cs) ==
    IF s # <<>> /\ s[Len(s)] \in cs THEN RStrip(SubSeq(s, 1, Len(s) - 1), cs) ELSE s
\* str.strip(chars)
StripChars(s, cs) == RStrip(LStrip(s, cs), cs)
\* str.strip()
Strip(s) == StripChars(s, Whitespace)

HasTab(s) == \E i \in 1..Len(s) : s[i] = "TAB"
FirstIn(s, cs) ==
    LET hits == {i \in 1..Len(s) : s[i] \in cs}
    IN  IF hits = {} THEN 0 ELSE CHOOSE i \in hits : \A j \in hits : i <= j
\* str.split("\t"): empty fields are kept
RECURSIVE SplitTab(_)
SplitTab(s) ==
    LET i == FirstIn(s, {"TAB"})
    IN  IF i = 0 THEN <<s>>
        ELSE <<SubSeq(s, 1, i - 1)>> \o SplitTab(SubSeq(s, i + 1, Len(s)))
\* str.split(): runs of whitespace separate, no empty fields
RECURSIVE SplitWs(_)
SplitWs(s) ==
    LET u == LStrip(s, Whitespace)
        i == FirstIn(u, Whitespace)
    IN  IF u = <<>> THEN <<>>
        ELSE IF i = 0 THEN <<u>>
        ELSE <<SubSeq(u, 1, i - 1)>> \o SplitWs(SubSeq(u, i, Len(u)))
\* the split both functions use: on tabs if the line has one, else on whitespace
Parts(s) == IF HasTab(s) THEN SplitTab(s) ELSE SplitWs(s)

Credentials(email, password) == [email |-> email, password |-> password]

\* login_flow.py lines 233-244: what one line of the file yields (nothing or
\* one Credentials)
ReaderCreds(line) ==
    LET l == StripChars(line, ReaderStripChars)
        parts == Parts(l)
    IN  IF l = <<>> THEN <<>>
        ELSE IF Len(parts) < 2 THEN <<>>
        ELSE <<Credentials(Strip(parts[1]), Strip(parts[2]))>>

RECURSIVE ReadAccounts(_)
ReadAccounts(lines) ==
    IF lines = <<>> THEN <<>>
    ELSE ReaderCreds(Head(lines)) \o ReadAccounts(Tail(lines))

\* run_all.py lines 98-99: the test _remove_account_line applies to a line
LineMatches(ln, email, password) ==
    LET parts == Parts(ln)
    IN  Len(parts) >= 2 /\ Strip(parts[1]) = email /\ Strip(parts[2]) = password

\* run_all.py lines 87-106: the lines written back (the first matching line
\* is dropped, all others kept)
RECURSIVE RemoveAccountLine(_, _, _)
RemoveAccountLine(lines, email, password) ==
    IF lines = <<>> THEN <<>>
    ELSE IF LineMatches(Head(lines), email, password) THEN Tail(lines)
    ELSE <<Head(lines)>> \o RemoveAccountLine(Tail(lines), email, password)

\* the lines of the accounts files explored: an optional BOM, an email, a
\* tab or a space, a password, an optional trailing space; a blank line and
\* a line with one field
Emails == {<<"a">>, <<"b">>}
Passwords == {<<"p">>}
AccountLines ==
    {lead \o e \o sep \o pw \o trail :
        lead \in {<<>>, <<"BOM">>}, e \in Emails, sep \in {<<"TAB">>, <<"SP">>},
        pw \in Passwords, trail \in {<<>>, <<"SP">>}}
    \cup {<<>>, <<"a">>}
\* a file of well-formed lines, and the files it leaves when lines are cut
\* off its end
PlainFile == <<<<"a", "TAB", "p">>, <<"b", "TAB", "p">>>>
PlainFiles == {SubSeq(PlainFile, 1, n) : n \in 0..Len(PlainFile)}
FilesOf(lines) == UNION {[1..n -> lines] : n \in 0..MaxLines}

\* the outcome classes of a run_one process
OutcomeClasses == {"success", "generic", "invalid", "no_window"}

(***************************************************************************)
(* run_all.main: the batch driver.                                         *)
(***************************************************************************)
\* login_flow.py line 25
MAX_SCROLL_TRIES == 5

\* the state-loop iteration did not search for the logout button
NoSearch == [locates |-> 0, scrolls |-> 0, clicked |-> FALSE, ctl |-> "none"]

\* a variant of LogoutSearch that clicks a fixed point when the template
\* file is missing
LogoutSearchBlindClick(exists, probes) ==
    LET hits == {i \in 1..MAX_SCROLL_TRIES : probes[i]}
    IN  IF exists /\ hits = {}
        THEN [locates |-> MAX_SCROLL_TRIES, scrolls |-> MAX_SCROLL_TRIES,
              clicked |-> FALSE, ctl |-> "search"]
        ELSE [locates |-> IF exists THEN (CHOOSE i \in hits : \A j \in hits : i <= j) ELSE 0,
              scrolls |-> 0, clicked |-> TRUE, ctl |-> "search"]

\* login_flow.py lines 484-498: the search for the logout button; exists is
\* LOGOUT_TEMPLATE.exists(), probes[i] whether the i-th locate finds it
LogoutSearch(exists, probes) ==
    LET hits == {i \in 1..MAX_SCROLL_TRIES : probes[i]}
        first == CHOOSE i \in hits : \A j \in hits : i <= j
    IN  IF ~exists
        THEN [locates |-> 0, scrolls |-> 0, clicked |-> FALSE, ctl |-> "search"]
        ELSE IF hits = {}
        THEN [locates |-> MAX_SCROLL_TRIES, scrolls |-> MAX_SCROLL_TRIES,
              clicked |-> FALSE, ctl |-> "search"]
        ELSE [locates |-> first, scrolls |-> first - 1, clicked |-> TRUE,
              ctl |-> "search"]

\* run_all.py line 127: range(1, 3)
RUN_ONE_ATTEMPTS == 2
\* run_all.py lines 145-148: accounts_final/ok.txt, or the file named after
\* the chosen tanks
SuccessListNames == {"ok", "tanks"}
\* the return codes a run_one process can end with (run_one.py lines 32-101)
RunOneExitCodes == {0, 1, 2, 3}

\* run_all.py lines 130-134: the return codes that end the attempts (mutant:
\* code 3 is retried like any failure)
StopsAttemptsOnZeroOnly(code) == code = 0
\* run_all.py lines 130-134: the return codes that end the attempts
StopsAttempts(code) == code = 0 \/ code = 3

\* run_all.py line 136 (mutant: invalid credentials count as success)
IsSuccessUnlessInvalid(code) == code # 3
\* run_all.py line 136
IsSuccess(code) == code = 0

\* run_all.py lines 49-80 and 107: the checks before the loop, then the
\* first next() of the generator reads the whole file
RaStart ==
    /\ ra_pc = "start"
    /\ IF setup_ok
         THEN /\ queue' = ReadAccounts(accounts_file)
              /\ ra_pc' = "next"
         ELSE /\ ra_pc' = "done"
              /\ UNCHANGED queue
    /\ UNCHANGED <<setup_ok, accounts_file, acct, ra_attempt, rc, success_lists,
                   error_list, file_before, appends, removes>>
    /\ UNCHANGED <<gvars, xvars, rovars, lovars, obvars>>

\* run_all.py lines 107 and 126-127: the next account, or the end of the batch
RaNextAccount ==
    /\ ra_pc = "next"
    /\ IF acct < Len(queue)
         THEN /\ acct' = acct + 1
              /\ rc' = 1
              /\ ra_attempt' = 1
              /\ ra_pc' = "spawn"
              /\ appends' = <<0, 0>>
              /\ removes' = 0
              /\ inv_seen' = FALSE
              /\ calls_after_invalid' = 0
              /\ spawns_after_invalid' = 0
         ELSE /\ ra_pc' = "done"
              /\ UNCHANGED <<acct, rc, ra_attempt, appends, removes, inv_seen,
                             calls_after_invalid, spawns_after_invalid>>
    /\ UNCHANGED <<setup_ok, accounts_file, queue, success_lists, error_list,
                   file_before>>
    /\ UNCHANGED <<gvars, xvars, rovars, lovars, lo_end, submitted, acted, lo_search, ro_cause, class_codes>>

\* run_all.py line 129: subprocess.run starts a run_one process
RaSpawn ==
    /\ ra_pc = "spawn"
    /\ ra_pc' = "wait"
    /\ ro_pc' = "start"
    /\ ro_exit' = -1
    /\ spawns_after_invalid' = spawns_after_invalid + (IF inv_seen THEN 1 ELSE 0)
    /\ UNCHANGED <<setup_ok, accounts_file, queue, acct, ra_attempt, rc,
                   success_lists, error_list, file_before, appends, removes>>
    /\ UNCHANGED <<gvars, xvars, ro_attempt, ok, invalid_creds, lovars, lo_end, submitted, acted, lo_search, ro_cause,
                   class_codes, inv_seen, calls_after_invalid>>

\* run_all.py lines 129-135: the process ended; break or try again
RaReap ==
    /\ ra_pc = "wait"
    /\ ro_pc = "exited"
    /\ rc' = ro_exit
    /\ ro_pc' = "none"
    /\ IF StopsAttempts(ro_exit) \/ ra_attempt = RUN_ONE_ATTEMPTS
         THEN /\ ra_pc' = "record"
              /\ UNCHANGED ra_attempt
         ELSE /\ ra_pc' = "spawn"
              /\ ra_attempt' = ra_attempt + 1
    /\ UNCHANGED <<setup_ok, accounts_file, queue, acct, success_lists, error_list,
                   file_before, appends, removes>>
    /\ UNCHANGED <<gvars, xvars, ro_attempt, ok, invalid_creds, ro_exit, lovars, obvars>>

\* run_all.py lines 136-165: the account goes to a success list or to the
\* error list, and its line is removed from the accounts file
RaRecord ==
    /\ ra_pc = "record"
    /\ LET creds == queue[acct]
       IN  /\ IF IsSuccess(rc)
                THEN /\ \E name \in SuccessListNames :
                          success_lists' =
                            [success_lists EXCEPT ![name] = Append(@, creds)]
                     /\ appends' = <<appends[1] + 1, appends[2]>>
                     /\ UNCHANGED error_list
                ELSE /\ error_list' = Append(error_list, creds)
                     /\ appends' = <<appends[1], appends[2] + 1>>
                     /\ UNCHANGED success_lists
           /\ file_before' = accounts_file
           /\ accounts_file' = RemoveAccountLine(accounts_file, creds.email, creds.password)
           /\ removes' = removes + 1
    /\ ra_pc' = "next"
    /\ UNCHANGED <<setup_ok, queue, acct, ra_attempt, rc>>
    /\ UNCHANGED <<gvars, xvars, rovars, lovars, obvars>>

\* run_all.py line 129, seen from run_all: the process ends with some code
ChildExits ==
    /\ ro_pc = "start"
    /\ ro_pc' = "exited"
    /\ ro_exit' \in RunOneExitCodes
    /\ UNCHANGED <<gvars, xvars, ravars, ro_attempt, ok, invalid_creds, lovars, obvars>>

\* no batch is running (run_game_flow started on its own)
BatchIdle ==
    /\ setup_ok = TRUE
    /\ accounts_file = <<>>
    /\ queue = <<>>
    /\ acct = 0
    /\ ra_pc = "idle"
    /\ ra_attempt = 0
    /\ rc = 1
    /\ success_lists = [name \in SuccessListNames |-> <<>>]
    /\ error_list = <<>>
    /\ file_before = <<>>
    /\ appends = <<0, 0>>
    /\ removes = 0
    /\ ro_pc = "none"
    /\ ro_attempt = 0
    /\ ok = FALSE
    /\ invalid_creds = FALSE
    /\ ro_exit = -1
    /\ lo_pc = "none"
    /\ lo_i = 0
    /\ made_progress = FALSE
    /\ lo_result = "none"
    /\ lo_end = "none"
    /\ submitted = FALSE
    /\ acted = FALSE
    /\ lo_search = NoSearch
    /\ ro_cause = "none"
    /\ class_codes = [c \in OutcomeClasses |-> {}]
    /\ inv_seen = FALSE
    /\ calls_after_invalid = 0
    /\ spawns_after_invalid = 0

\* the start of run_all.main
InitRunAll(files) ==
    /\ setup_ok \in BOOLEAN
    /\ accounts_file \in files
    /\ queue = <<>>
    /\ acct = 0
    /\ ra_pc = "start"
    /\ ra_attempt = 0
    /\ rc = 1
    /\ success_lists = [name \in SuccessListNames |-> <<>>]
    /\ error_list = <<>>
    /\ file_before = <<>>
    /\ appends = <<0, 0>>
    /\ removes = 0
    /\ ro_pc = "none"
    /\ ro_attempt = 0
    /\ ok = FALSE
    /\ invalid_creds = FALSE
    /\ ro_exit = -1
    /\ lo_pc = "none"
    /\ lo_i = 0
    /\ made_progress = FALSE
    /\ lo_result = "none"
    /\ lo_end = "none"
    /\ submitted = FALSE
    /\ acted = FALSE
    /\ lo_search = NoSearch
    /\ ro_cause = "none"
    /\ class_codes = [c \in OutcomeClasses |-> {}]
    /\ inv_seen = FALSE
    /\ calls_after_invalid = 0
    /\ spawns_after_invalid = 0

\* no in-game flow of its own is modelled (run_game_flow is a child process
\* whose return code is all the batch sees)
GameStopped ==
    /\ index = EmptyIndex
    /\ max_secs = 0
    /\ no_hotkeys = TRUE
    /\ clock = StartTime
    /\ last_tick = 0
    /\ phase = "pre"
    /\ classify_paused = FALSE
    /\ post_stage = 0
    /\ reward_click_time = 0
    /\ final_wait_start = 0
    /\ reached_ungar = FALSE
    /\ stop_requested = FALSE
    /\ user_paused = FALSE
    /\ chosen_tanks = <<>>
    /\ last_state_seen = NoScene
    /\ state_repeat_count = 0
    /\ gpc = "idle"
    /\ loop_end = "none"
    /\ exit_code = -1
    /\ branch = "none"
    /\ run_scene = NoScene
    /\ run_len = 0
    /\ run_recoveries = 0
    /\ term_first = 0
    /\ term_held = FALSE
    /\ seen7_first = 0
    /\ term_run = 0
    /\ closes = 0
    /\ res_writes = <<>>
    /\ res_end = "none"

GameIdle ==
    /\ GameStopped
    /\ res_requested = TRUE

(***************************************************************************)
(* run_one.main: the process run for one account.                          *)
(***************************************************************************)
\* run_one.py line 57: range(1, 4)
LOGIN_ATTEMPTS == 3
\* the return codes of a run_game_flow process: sys.exit(0), sys.exit(2), or
\* 1 when an exception ends it
GameFlowExitCodes == {0, 1, 2}

\* run_one.py lines 61-69: the exceptions that end the login attempts
BreaksLoginLoop(result) == result \in {"LoginInvalidError", "GameStartTimeoutError"}

\* run_one.py line 78
LoginFailureCode(invalid) == IF invalid THEN 3 ELSE 1

\* the outcome class of a process that ends because login failed, from the
\* reason its last login_once call ended
LoginFailureClass(why) ==
    IF why = "invalid" THEN "invalid"
    ELSE IF why = "window_timeout" THEN "no_window"
    ELSE "generic"

\* the process ends with this code
RoExits(code, class) ==
    /\ ro_pc' = "exited"
    /\ ro_exit' = code
    /\ ro_cause' = class
    /\ class_codes' = [class_codes EXCEPT ![class] = @ \cup {code}]

\* run_one.py lines 28-57: the checks before the login attempts
RoStart ==
    /\ ro_pc = "start"
    /\ \E usable \in BOOLEAN :
         IF usable
           THEN /\ ro_pc' = "login_loop"
                /\ ro_attempt' = 1
                /\ ok' = FALSE
                /\ invalid_creds' = FALSE
                /\ UNCHANGED <<ro_exit, ro_cause, class_codes>>
           ELSE /\ RoExits(1, "generic")
                /\ UNCHANGED <<ro_attempt, ok, invalid_creds>>
    /\ UNCHANGED <<gvars, xvars, setup_ok, accounts_file, queue, acct, ra_pc, ra_attempt, rc,
                   success_lists, error_list, file_before, appends, removes, lo_pc, lo_i,
                   made_progress, lo_result, lo_end, submitted, acted, lo_search, inv_seen,
                   calls_after_invalid, spawns_after_invalid>>

\* run_one.py line 60: login_once is called
RoCallLogin ==
    /\ ro_pc = "login_loop"
    /\ ro_pc' = "in_login"
    /\ lo_pc' = "start"
    /\ lo_i' = 0
    /\ made_progress' = FALSE
    /\ lo_result' = "none"
    /\ lo_end' = "none"
    /\ submitted' = FALSE
    /\ acted' = FALSE
    /\ lo_search' = NoSearch
    /\ calls_after_invalid' = calls_after_invalid + (IF inv_seen THEN 1 ELSE 0)
    /\ UNCHANGED <<gvars, xvars, setup_ok, accounts_file, queue, acct, ra_pc, ra_attempt, rc,
                   success_lists, error_list, file_before, appends, removes, ro_attempt,
                   ok, invalid_creds, ro_exit, ro_cause, class_codes, inv_seen,
                   spawns_after_invalid>>

\* run_one.py lines 60-75: login_once returned or raised; break, or go on
\* to the next attempt
RoLoginReturn ==
    /\ ro_pc = "in_login"
    /\ lo_pc = "returned"
    /\ lo_pc' = "none"
    /\ ok' = (lo_result = "True")
    /\ invalid_creds' = (invalid_creds \/ lo_result = "LoginInvalidError")
    /\ IF BreaksLoginLoop(lo_result) \/ lo_result = "True" \/ ro_attempt = LOGIN_ATTEMPTS
         THEN /\ ro_pc' = "after_login"
              /\ UNCHANGED ro_attempt
         ELSE /\ ro_pc' = "login_loop"
              /\ ro_attempt' = ro_attempt + 1
    /\ UNCHANGED <<gvars, xvars, setup_ok, accounts_file, queue, acct, ra_pc, ra_attempt, rc,
                   success_lists, error_list, file_before, appends, removes, ro_exit, lo_i,
                   made_progress, lo_result, lo_end, submitted, acted, lo_search, ro_cause, class_codes,
                   inv_seen, calls_after_invalid, spawns_after_invalid>>

\* run_one.py lines 76-78: no login, no game
RoAfterLogin ==
    /\ ro_pc = "after_login"
    /\ IF ~ok
         THEN RoExits(LoginFailureCode(invalid_creds), LoginFailureClass(lo_end))
         ELSE /\ ro_pc' = "game"
              /\ UNCHANGED <<ro_exit, ro_cause, class_codes>>
    /\ UNCHANGED <<gvars, xvars, setup_ok, accounts_file, queue, acct, ra_pc, ra_attempt, rc,
                   success_lists, error_list, file_before, appends, removes, ro_attempt,
                   ok, invalid_creds, lo_pc, lo_i, made_progress, lo_result, lo_end,
                   submitted, acted, lo_search, inv_seen, calls_after_invalid, spawns_after_invalid>>

\* run_one.py lines 81-101: the in-game flow runs as a child process and
\* its return code becomes the exit code
RoGameFlow ==
    /\ ro_pc = "game"
    /\ \E grc \in GameFlowExitCodes :
         RoExits(grc, IF grc = 0 THEN "success" ELSE "generic")
    /\ UNCHANGED <<gvars, xvars, setup_ok, accounts_file, queue, acct, ra_pc, ra_attempt, rc,
                   success_lists, error_list, file_before, appends, removes, ro_attempt,
                   ok, invalid_creds, lo_pc, lo_i, made_progress, lo_result, lo_end,
                   submitted, acted, lo_search, inv_seen, calls_after_invalid, spawns_after_invalid>>

(***************************************************************************)
(* login_flow.login_once: one login attempt in the launcher.               *)
(***************************************************************************)
\* login_flow.py line 382
MAIN_MENU_POLLS == 10
\* login_flow.py line 400
MAIN_MENU_RETRY_POLLS == 8
\* login_flow.py line 421
STATE_POLLS == 90
\* login_flow.py line 564
RETURN_POLLS == 20
\* login_flow.py lines 591 and 596: 30 seconds in sleeps of half a second
WINDOW_WAIT_POLLS == 60

\* what one look at the launcher gives: no image, no match, or a scene label
LoginObservations ==
    {"no_image", NoMatch, "main_menu", "login_menu", "account_is_login",
     "account_logout", "account_logout_conf", "other"}
\* PHashStateClassifier.load(): the number of templates
TemplateCounts == {0, 1}

\* login_once ends: result is what the caller gets ("True", "False" or the
\* name of the exception raised), why the reason
LoEnds(result, why) ==
    /\ lo_pc' = "returned"
    /\ lo_result' = result
    /\ lo_end' = why
    /\ lo_i' = 0

\* login_flow.py lines 599-602: except Exception catches whatever was raised
\* in the try statement and login_once returns False
ExceptException(raised) == "False"

\* login_flow.py lines 370-381
LoStart ==
    /\ ro_pc = "in_login"
    /\ lo_pc = "start"
    /\ \E visible \in BOOLEAN, templates \in TemplateCounts :
         IF ~visible THEN LoEnds("False", "no_launcher")
         ELSE IF templates = 0 THEN LoEnds("False", "no_templates")
         ELSE /\ lo_pc' = "wait_main"
              /\ lo_i' = 0
              /\ UNCHANGED <<lo_result, lo_end>>
    /\ UNCHANGED <<gvars, xvars, setup_ok, accounts_file, queue, acct, ra_pc, ra_attempt, rc,
                   success_lists, error_list, file_before, appends, removes, ro_pc,
                   ro_attempt, ok, invalid_creds, ro_exit, made_progress, submitted, acted, lo_search,
                   ro_cause, class_codes, inv_seen, calls_after_invalid,
                   spawns_after_invalid>>

\* login_flow.py lines 382-399 and 416-420: one poll for the main menu; the
\* avatar is clicked when it is seen and when the polls are used up
LoWaitMain ==
    /\ ro_pc = "in_login"
    /\ lo_pc = "wait_main"
    /\ \E saw_main \in {obs = "main_menu" : obs \in LoginObservations} :
         IF saw_main
           THEN lo_pc' = "states" /\ lo_i' = 0
           ELSE IF lo_i + 1 < MAIN_MENU_POLLS
                  THEN lo_i' = lo_i + 1 /\ UNCHANGED lo_pc
                  ELSE lo_pc' = "wait_main2" /\ lo_i' = 0
    /\ UNCHANGED <<gvars, xvars, setup_ok, accounts_file, queue, acct, ra_pc, ra_attempt, rc,
                   success_lists, error_list, file_before, appends, removes, ro_pc,
                   ro_attempt, ok, invalid_creds, ro_exit, made_progress, lo_result,
                   lo_end, submitted, acted, lo_search, ro_cause, class_codes, inv_seen, calls_after_invalid,
                   spawns_after_invalid>>

\* login_flow.py lines 400-420: the second round of polls for the main menu
LoWaitMain2 ==
    /\ ro_pc = "in_login"
    /\ lo_pc = "wait_main2"
    /\ \E saw_main \in {obs = "main_menu" : obs \in LoginObservations} :
         IF saw_main
           THEN lo_pc' = "states" /\ lo_i' = 0 /\ UNCHANGED <<lo_result, lo_end>>
           ELSE IF lo_i + 1 < MAIN_MENU_RETRY_POLLS
                  THEN lo_i' = lo_i + 1 /\ UNCHANGED <<lo_pc, lo_result, lo_end>>
                  ELSE LoEnds("False", "no_main_menu")
    /\ UNCHANGED <<gvars, xvars, setup_ok, accounts_file, queue, acct, ra_pc, ra_attempt, rc,
                   success_lists, error_list, file_before, appends, removes, ro_pc,
                   ro_attempt, ok, invalid_creds, ro_exit, made_progress, submitted, acted, lo_search,
                   ro_cause, class_codes, inv_seen, calls_after_invalid,
                   spawns_after_invalid>>

\* login_flow.py lines 422-556: what one iteration of the state loop does
\* with the scene it sees; found is the outcome of the template search the
\* scene's handler makes (error indicator, logout button, close cross), act
\* the click the handler made that counts as progress (credentials
\* submitted, logout, dismiss icon, account-add)
StatesStep(obs, found, progress) ==
    IF obs = "login_menu"
      THEN IF found
             THEN [ctl |-> "raise", progress |-> progress, act |-> "submit",
                   result |-> "LoginInvalidError", why |-> "invalid"]
             ELSE [ctl |-> "break", progress |-> TRUE, act |-> "submit",
                   result |-> "none", why |-> "none"]
    ELSE IF obs = "account_is_login"
      THEN IF found
             THEN [ctl |-> "continue", progress |-> TRUE, act |-> "logout",
                   result |-> "none", why |-> "none"]
             ELSE [ctl |-> "return", progress |-> progress, act |-> "none",
                   result |-> "False", why |-> "logout_missing"]
    ELSE IF obs = "account_logout"
      THEN IF found
             THEN [ctl |-> "continue", progress |-> TRUE, act |-> "dismiss",
                   result |-> "none", why |-> "none"]
             ELSE [ctl |-> "return", progress |-> progress, act |-> "none",
                   result |-> "False", why |-> "krestik_missing"]
    ELSE IF obs = "account_logout_conf"
      THEN [ctl |-> "continue", progress |-> TRUE, act |-> "add_account",
            result |-> "none", why |-> "none"]
    ELSE [ctl |-> "continue", progress |-> progress, act |-> "none",
          result |-> "none", why |-> "none"]

\* a variant of NoProgress that always lets the attempt go on
NoProgressNever(progress) == FALSE

\* login_flow.py line 559: if not made_progress
NoProgress(progress) == ~progress

\* login_flow.py lines 422-556: the outcomes of one iteration over every
\* scene and every result of the searches its handler makes
IterationOutcomes(progress) ==
    {[step |-> StatesStep(obs, found, progress), search |-> NoSearch] :
        obs \in LoginObservations \ {"account_is_login"}, found \in BOOLEAN}
    \cup
    {[step |-> StatesStep("account_is_login", s.clicked, progress),
      search |-> [s EXCEPT !.ctl =
                     StatesStep("account_is_login", s.clicked, progress).ctl]] :
        s \in {LogoutSearch(exists, probes) :
                  exists \in BOOLEAN, probes \in [1..MAX_SCROLL_TRIES -> BOOLEAN]}}

\* login_flow.py lines 421-561: one iteration of the state loop, and what
\* follows the loop when it ends
LoStates ==
    /\ ro_pc = "in_login"
    /\ lo_pc = "states"
    /\ \E it \in IterationOutcomes(made_progress) :
         LET step == it.step
             leaves == step.ctl = "break"
                       \/ (step.ctl = "continue" /\ lo_i + 1 >= STATE_POLLS)
         IN  /\ lo_search' = it.search
             /\ made_progress' = step.progress
             /\ submitted' = (submitted \/ step.ctl = "break")
             /\ acted' = (acted \/ step.act # "none")
             /\ inv_seen' = (inv_seen \/ step.ctl = "raise")
             /\ IF step.ctl \in {"raise", "return"} THEN LoEnds(step.result, step.why)
                ELSE IF ~leaves
                  THEN lo_i' = lo_i + 1 /\ UNCHANGED <<lo_pc, lo_result, lo_end>>
                ELSE IF NoProgress(step.progress) THEN LoEnds("False", "no_progress")
                ELSE /\ lo_pc' = "wait_return"
                     /\ lo_i' = 0
                     /\ UNCHANGED <<lo_result, lo_end>>
    /\ UNCHANGED <<gvars, xvars, setup_ok, accounts_file, queue, acct, ra_pc, ra_attempt, rc,
                   success_lists, error_list, file_before, appends, removes, ro_pc,
                   ro_attempt, ok, invalid_creds, ro_exit, ro_cause, class_codes,
                   calls_after_invalid, spawns_after_invalid>>

\* login_flow.py lines 416, 441-468, 490, 518, 540-552: a click or a key
\* press raises (pyautogui's fail-safe, a lost window)
LoRaises ==
    /\ ro_pc = "in_login"
    /\ lo_pc = "states"
    /\ LoEnds("Exception", "exception")
    /\ UNCHANGED <<gvars, xvars, setup_ok, accounts_file, queue, acct, ra_pc, ra_attempt, rc,
                   success_lists, error_list, file_before, appends, removes, ro_pc,
                   ro_attempt, ok, invalid_creds, ro_exit, made_progress, submitted, acted, lo_search,
                   ro_cause, class_codes, inv_seen, calls_after_invalid,
                   spawns_after_invalid>>

\* login_flow.py lines 564-584: one poll for the main menu after the login;
\* Play is clicked when it is seen and when the polls are used up
LoWaitReturn ==
    /\ ro_pc = "in_login"
    /\ lo_pc = "wait_return"
    /\ \E saw_main \in {obs = "main_menu" : obs \in LoginObservations} :
         IF saw_main \/ lo_i + 1 >= RETURN_POLLS
           THEN lo_pc' = "wait_window" /\ lo_i' = 0
           ELSE lo_i' = lo_i + 1 /\ UNCHANGED lo_pc
    /\ UNCHANGED <<gvars, xvars, setup_ok, accounts_file, queue, acct, ra_pc, ra_attempt, rc,
                   success_lists, error_list, file_before, appends, removes, ro_pc,
                   ro_attempt, ok, invalid_creds, ro_exit, made_progress, lo_result,
                   lo_end, submitted, acted, lo_search, ro_cause, class_codes, inv_seen, calls_after_invalid,
                   spawns_after_invalid>>

\* login_flow.py lines 586-602: one look for the game window; after the
\* last one GameStartTimeoutError is raised inside the try statement
LoWaitWindow ==
    /\ ro_pc = "in_login"
    /\ lo_pc = "wait_window"
    /\ \E config_ok \in BOOLEAN, hwnd_game \in BOOLEAN :
         IF lo_i = 0 /\ ~config_ok
           THEN LoEnds(ExceptException("Exception"), "window_check_failed")
         ELSE IF hwnd_game THEN LoEnds("True", "window")
         ELSE IF lo_i + 1 < WINDOW_WAIT_POLLS
           THEN lo_i' = lo_i + 1 /\ UNCHANGED <<lo_pc, lo_result, lo_end>>
         ELSE LoEnds(ExceptException("GameStartTimeoutError"), "window_timeout")
    /\ UNCHANGED <<gvars, xvars, setup_ok, accounts_file, queue, acct, ra_pc, ra_attempt, rc,
                   success_lists, error_list, file_before, appends, removes, ro_pc,
                   ro_attempt, ok, invalid_creds, ro_exit, made_progress, submitted, acted, lo_search,
                   ro_cause, class_codes, inv_seen, calls_after_invalid,
                   spawns_after_invalid>>

(***************************************************************************)
(* The scroll memory of run_game_flow (_read_scroll_count,                 *)
(* _write_scroll_count): one file per tank, holding a step count.          *)
(***************************************************************************)
\* run_game_flow.py lines 825 and 884: the tanks the flow selects
TankIds == {"is7", "fv4005"}
\* run_game_flow.py line 135: the tank has no file yet
NoFile == -1

\* run_game_flow.py lines 132-140: a missing file reads as 0
ReadScrollCount(store, tank_id) ==
    IF store[tank_id] = NoFile THEN 0 ELSE store[tank_id]

Min2(a, b) == IF a <= b THEN a ELSE b
Max2(a, b) == IF a >= b THEN a ELSE b

\* run_game_flow.py line 148
NewScrollValue(old, count) == IF old = 0 THEN count ELSE Min2(old, count)

\* run_game_flow.py lines 143-151: the files after the write
WriteScrollCount(store, tank_id, count) ==
    LET old == ReadScrollCount(store, tank_id)
        new_val == NewScrollValue(old, count)
    IN  [store EXCEPT ![tank_id] = Max2(0, new_val)]

\* run_game_flow.py lines 143-151 and 286: one call, with the steps used
ScrollWrite ==
    /\ spc = "scroll"
    /\ \E tank_id \in TankIds, count \in 0..MaxScroll :
         /\ scroll_prev' = scroll_store
         /\ scroll_last' = <<tank_id, count>>
         /\ scroll_store' = WriteScrollCount(scroll_store, tank_id, count)
    /\ UNCHANGED <<gvars, bvars, spc, find_call, clvars, tvars>>

\* the steps one search may take (the callers pass 60, lines 825 and 884)
MaxSteps == 3

\* no search was made
NoFind == [tank_id |-> "none", max_steps |-> 0, at_saved |-> FALSE, probes |-> <<>>,
           found |-> FALSE, used |-> 0, tops |-> 0, replayed |-> 0, scanned |-> FALSE,
           probed |-> 0, clicks |-> 0, writes |-> 0]

\* a variant of FindAndClickTankByMemory that never replays the saved steps
FindAndClickTankScanOnly(store, tank_id, max_steps, at_saved, probes) ==
    LET n == Max2(1, max_steps)
        hits == {i \in 0..(n - 1) : probes[i]}
        first == CHOOSE i \in hits : \A j \in hits : i <= j
    IN  IF hits # {}
        THEN [found |-> TRUE, used |-> first,
              store |-> WriteScrollCount(store, tank_id, first),
              tops |-> 1, replayed |-> 0, scanned |-> TRUE,
              probed |-> first + 1, clicks |-> 1, writes |-> 1]
        ELSE [found |-> FALSE, used |-> n, store |-> store,
              tops |-> 1, replayed |-> 0, scanned |-> TRUE,
              probed |-> n, clicks |-> 0, writes |-> 0]

\* run_game_flow.py lines 253-296. at_saved is what _locate_icon reports after
\* the replay of the saved steps, probes[i] what it reports after i steps of
\* the scan from the top. The outcome: found and used as returned, the files,
\* the calls of _scroll_to_top, the steps replayed, whether the scan ran, the
\* probes of the scan, the clicks and the calls of _write_scroll_count
FindAndClickTankByMemory(store, tank_id, max_steps, at_saved, probes) ==
    LET saved == ReadScrollCount(store, tank_id)
        n == Max2(1, max_steps)
        hits == {i \in 0..(n - 1) : probes[i]}
        first == CHOOSE i \in hits : \A j \in hits : i <= j
        replay == saved > 0
    IN  IF replay /\ at_saved
        THEN [found |-> TRUE, used |-> saved, store |-> store, tops |-> 1,
              replayed |-> saved, scanned |-> FALSE, probed |-> 0, clicks |-> 1,
              writes |-> 0]
        ELSE IF hits # {}
        THEN [found |-> TRUE, used |-> first,
              store |-> WriteScrollCount(store, tank_id, first),
              tops |-> IF replay THEN 2 ELSE 1,
              replayed |-> IF replay THEN saved ELSE 0, scanned |-> TRUE,
              probed |-> first + 1, clicks |-> 1, writes |-> 1]
        ELSE [found |-> FALSE, used |-> n, store |-> store,
              tops |-> IF replay THEN 2 ELSE 1,
              replayed |-> IF replay THEN saved ELSE 0, scanned |-> TRUE,
              probed |-> n, clicks |-> 0, writes |-> 0]

\* run_game_flow.py lines 825 and 884: one search for a tank
FindTank ==
    /\ spc = "find"
    /\ \E tank_id \in TankIds, max_steps \in 1..MaxSteps, at_saved \in BOOLEAN :
         \E probes \in [0..(max_steps - 1) -> BOOLEAN] :
            \E r \in {FindAndClickTankByMemory(scroll_store, tank_id, max_steps, at_saved, probes)} :
               /\ scroll_prev' = scroll_store
               /\ scroll_store' = r.store
               /\ scroll_last' = IF r.writes > 0 THEN <<tank_id, r.used>> ELSE scroll_last
               /\ find_call' = [tank_id |-> tank_id, max_steps |-> max_steps,
                                at_saved |-> at_saved /\ ReadScrollCount(scroll_store, tank_id) > 0,
                                probes |-> probes,
                                found |-> r.found, used |-> r.used, tops |-> r.tops,
                                replayed |-> r.replayed, scanned |-> r.scanned,
                                probed |-> r.probed, clicks |-> r.clicks, writes |-> r.writes]
    /\ UNCHANGED <<gvars, bvars, spc, clvars, tvars>>

\* no scroll file was written
ScrollIdle ==
    /\ scroll_store = [t \in TankIds |-> NoFile]
    /\ scroll_prev = [t \in TankIds |-> NoFile]
    /\ scroll_last = <<"is7", 0>>
    /\ find_call = NoFind

(***************************************************************************)
(* The scene classifier (wotbot/vision/state_classifier.py).  A perceptual *)
(* hash is the set of its one-bits, over a reduced width; a dataset root   *)
(* maps each entry name to what load finds there.                          *)
(***************************************************************************)
HashBits == {"b0", "b1"}
Hashes == SUBSET HashBits

\* state_classifier.py line 73, h - th: the Hamming distance
Hamming(h, th) == Cardinality((h \ th) \cup (th \ h))

\* a file matched by glob("*.*"): whether its suffix is one of the image
\* suffixes, whether Image.open and phash succeed, and its hash
FileKinds ==
    {[suffix_ok |-> FALSE, opens |-> TRUE, hash |-> {}],
     [suffix_ok |-> TRUE, opens |-> FALSE, hash |-> {}]}
    \cup {[suffix_ok |-> TRUE, opens |-> TRUE, hash |-> h] : h \in Hashes}
\* the files of one directory in sorted order, at most n of them
FileLists(n) == UNION {[1..k -> FileKinds] : k \in 0..n}

SceneDirs == {"login_menu", "main_menu"}
ReservedDirs == {"templates", "Templates", "TEMPLATES"}
PlainEntries == {"notes.txt"}
\* str.lower() on the entry names in use
Lower(name) == IF name \in ReservedDirs THEN "templates" ELSE name
\* the entry names in the order sorted() gives them (code points)
NameOrder ==
    <<"TEMPLATES", "Templates", "login_menu", "main_menu", "notes.txt", "templates">>

\* the dataset roots: two scene directories, one reserved directory holding
\* an image, and a plain file
Datasets ==
    {[name \in SceneDirs \cup {r} \cup PlainEntries |->
        IF name = "login_menu" THEN [is_dir |-> TRUE, files |-> fa]
        ELSE IF name = "main_menu" THEN [is_dir |-> TRUE, files |-> fb]
        ELSE IF name = r
             THEN [is_dir |-> TRUE,
                   files |-> <<[suffix_ok |-> TRUE, opens |-> TRUE, hash |-> {}]>>]
             ELSE [is_dir |-> FALSE, files |-> <<>>]] :
      fa \in FileLists(MaxTemplates),
      fb \in {<<>>} \cup {<<f>> : f \in FileKinds},
      r \in ReservedDirs}

\* line 40: sorted(self.dataset_root.iterdir())
SortedEntries(ds) == SelectSeq(NameOrder, LAMBDA name : name \in DOMAIN ds)

\* a variant of IsReserved that compares the name as written
IsReservedExact(name) == name = "templates"

\* line 45
IsReserved(name) == Lower(name) = "templates"

\* lines 47-57: the hashes of the files that pass the suffix test and open
DirHashes(files) ==
    LET valid == SelectSeq(files, LAMBDA f : f.suffix_ok /\ f.opens)
    IN  [i \in 1..Len(valid) |-> valid[i].hash]

\* the index is an insertion-ordered dict: a sequence of <<state, hashes>>
SceneKeys(idx) == {idx[i][1] : i \in 1..Len(idx)}

\* line 59, self.state_to_hashes[state] = hashes: a key already present
\* keeps its place, a new key goes last
PutScene(idx, state, hashes) ==
    IF state \in SceneKeys(idx)
    THEN [i \in 1..Len(idx) |-> IF idx[i][1] = state THEN <<state, hashes>> ELSE idx[i]]
    ELSE Append(idx, <<state, hashes>>)

\* the templates of the index in iteration order (lines 71-72)
RECURSIVE IndexTemplates(_)
IndexTemplates(idx) ==
    IF idx = <<>> THEN <<>>
    ELSE [i \in 1..Len(Head(idx)[2]) |->
              [state |-> Head(idx)[1], hash |-> Head(idx)[2][i]]]
         \o IndexTemplates(Tail(idx))

\* a variant of InitialTotal that starts from the templates already held
InitialTotalHeld(idx) == Len(IndexTemplates(idx))

\* line 39
InitialTotal(idx) == 0

\* lines 40-61: the loop over the entries
RECURSIVE LoadFrom(_, _, _, _)
LoadFrom(ds, names, idx, total) ==
    IF names = <<>> THEN [index |-> idx, total |-> total]
    ELSE LET state == Head(names)
             hashes == DirHashes(ds[state].files)
         IN  IF ~ds[state].is_dir \/ IsReserved(state)
             THEN LoadFrom(ds, Tail(names), idx, total)
             ELSE LoadFrom(ds, Tail(names),
                           IF hashes # <<>> THEN PutScene(idx, state, hashes) ELSE idx,
                           total + Len(hashes))

\* lines 38-62: load on an instance whose index is idx
Load(ds, idx) == LoadFrom(ds, SortedEntries(ds), idx, InitialTotal(idx))

\* classify's result when it returns None
NoStateMatch == [state |-> NoMatch, distance |-> -1, template |-> 0]

\* a variant of Closer that also replaces the best match on equal distance
CloserOrEqual(best, d) == best.state = NoMatch \/ d <= best.distance

\* line 74
Closer(best, d) == best.state = NoMatch \/ d < best.distance

\* lines 70-76: the linear scan; k is the place of Head(tpls) in the index
RECURSIVE Scan(_, _, _, _)
Scan(tpls, k, h, best) ==
    IF tpls = <<>> THEN best
    ELSE LET d == Hamming(h, Head(tpls).hash)
         IN  Scan(Tail(tpls), k + 1, h,
                  IF Closer(best, d)
                  THEN [state |-> Head(tpls).state, distance |-> d, template |-> k]
                  ELSE best)

\* a variant of Classify that rejects matches above a distance
ClassifyWithCutoff(idx, h) ==
    LET best == Scan(IndexTemplates(idx), 1, h, NoStateMatch)
    IN  IF idx = <<>> \/ best.distance > 1 THEN NoStateMatch ELSE best

\* lines 64-76
Classify(idx, h) ==
    IF idx = <<>> THEN NoStateMatch
    ELSE Scan(IndexTemplates(idx), 1, h, NoStateMatch)

\* classify has not been called
NotClassified == [state |-> "not_called", distance |-> -1, template |-> 0]

\* lines 38-62: load() on the first instance, at most twice
ClLoad ==
    /\ spc = "classifier"
    /\ cl_loads < 2
    /\ \E res \in {Load(cl_dataset, cl_index)} :
         /\ cl_index' = res.index
         /\ cl_total' = res.total
         /\ cl_first' = IF cl_loads = 0 THEN res ELSE cl_first
    /\ cl_loads' = cl_loads + 1
    /\ UNCHANGED <<gvars, bvars, spc, scroll_store, scroll_prev, scroll_last, find_call, tvars,
                   cl_dataset, cl_query, cl_other, cl_asked, cl_match>>

\* lines 34-62: a second instance on the same root, loaded once
ClLoadOther ==
    /\ spc = "classifier"
    /\ cl_other.total = -1
    /\ cl_other' = Load(cl_dataset, <<>>)
    /\ UNCHANGED <<gvars, bvars, spc, scroll_store, scroll_prev, scroll_last, find_call, tvars,
                   cl_dataset, cl_query, cl_index, cl_total, cl_first, cl_loads,
                   cl_asked, cl_match>>

\* lines 64-76: classify() on the first instance
ClClassify ==
    /\ spc = "classifier"
    /\ cl_match = NotClassified
    /\ cl_match' = Classify(cl_index, cl_query)
    /\ cl_asked' = cl_index
    /\ UNCHANGED <<gvars, bvars, spc, scroll_store, scroll_prev, scroll_last, find_call, tvars,
                   cl_dataset, cl_query, cl_index, cl_total, cl_first, cl_loads,
                   cl_other>>

\* the classifier's variables before construction
ClassifierNew ==
    /\ cl_index = <<>>
    /\ cl_total = -1
    /\ cl_first = [index |-> <<>>, total |-> -1]
    /\ cl_loads = 0
    /\ cl_other = [index |-> <<>>, total |-> -1]
    /\ cl_asked = <<>>
    /\ cl_match = NotClassified

\* no classifier is in use
ClassifierIdle ==
    /\ cl_dataset = [name \in PlainEntries |-> [is_dir |-> FALSE, files |-> <<>>]]
    /\ cl_query = {}
    /\ ClassifierNew

(***************************************************************************)
(* firstmail_buy.main with --all-available: the pool of worker_loop        *)
(* threads.                                                                *)
(***************************************************************************)
\* firstmail_buy.py lines 82-83: max(1, args.workers) threads
NumWorkers == 2
Workers == 1..NumWorkers

\* the addresses the market may hand out; it may hand out one twice
MarketEmails == {"a@m", "b@m", "c@m"}
\* lines 71-77: mb.raw["left"]: missing or not a number, above 0, 0 or below
LeftKinds == {"none", "positive", "not_positive"}
NoMail == [email |-> "", left |-> "none"]
Mailboxes == [email : MarketEmails, left : LeftKinds]

\* a variant of LockFree: the lock is never waited for
LockFreeIgnored == TRUE

\* line 65: with lock, entered when no worker holds it
LockFree == fm_lock = 0

\* the variables of the pool that a step of worker w leaves alone
FmOthers == <<gvars, bvars, spc, scroll_store, scroll_prev, scroll_last, find_call, clvars, wgvars,
              hwvars>>

\* line 59: while not stop_event.is_set()
FmCheckStop(w) ==
    /\ spc = "mail_pool"
    /\ fm_pc[w] = "head"
    /\ fm_pc' = [fm_pc EXCEPT ![w] = IF fm_stop THEN "done" ELSE "buy"]
    /\ UNCHANGED <<fm_mb, fm_lock, fm_stop, fm_seen, fm_file, fm_bought, fm_tmp, fm_open, fm_late>>
    /\ UNCHANGED FmOthers

\* lines 60-64: buy_mailbox returns a mailbox, or raises and the worker ends
FmBuy(w) ==
    /\ spc = "mail_pool"
    /\ fm_pc[w] = "buy"
    /\ \/ \E mb \in Mailboxes :
            /\ fm_mb' = [fm_mb EXCEPT ![w] = mb]
            /\ fm_pc' = [fm_pc EXCEPT ![w] = "acquire"]
       \/ /\ fm_pc' = [fm_pc EXCEPT ![w] = "done"]
          /\ UNCHANGED fm_mb
    /\ UNCHANGED <<fm_lock, fm_stop, fm_seen, fm_file, fm_bought, fm_tmp, fm_open, fm_late>>
    /\ UNCHANGED FmOthers

\* line 65: with lock
FmAcquire(w) ==
    /\ spc = "mail_pool"
    /\ fm_pc[w] = "acquire"
    /\ LockFree
    /\ fm_lock' = w
    /\ fm_pc' = [fm_pc EXCEPT ![w] = "check"]
    /\ UNCHANGED <<fm_mb, fm_stop, fm_seen, fm_file, fm_bought, fm_tmp, fm_open, fm_late>>
    /\ UNCHANGED FmOthers

\* lines 66-70: a duplicate sets stop_event and ends the worker; a new
\* address joins seen
FmCheckSeen(w) ==
    /\ spc = "mail_pool"
    /\ fm_pc[w] = "check"
    /\ IF fm_mb[w].email \in fm_seen
       THEN /\ fm_stop' = TRUE
            /\ fm_lock' = 0
            /\ fm_pc' = [fm_pc EXCEPT ![w] = "done"]
            /\ UNCHANGED fm_seen
       ELSE /\ fm_seen' = fm_seen \cup {fm_mb[w].email}
            /\ fm_pc' = [fm_pc EXCEPT ![w] = "open"]
            /\ UNCHANGED <<fm_stop, fm_lock>>
    /\ UNCHANGED <<fm_mb, fm_file, fm_bought, fm_tmp, fm_open, fm_late>>
    /\ UNCHANGED FmOthers

\* line 48: out_path.open("a"); an OSError leaves the with-block of the lock
\* and ends the worker
FmOpen(w) ==
    /\ spc = "mail_pool"
    /\ fm_pc[w] = "open"
    /\ \/ /\ fm_open' = fm_open \cup {w}
          /\ fm_pc' = [fm_pc EXCEPT ![w] = "write"]
          /\ UNCHANGED fm_lock
       \/ /\ fm_lock' = 0
          /\ fm_pc' = [fm_pc EXCEPT ![w] = "done"]
          /\ UNCHANGED fm_open
    /\ UNCHANGED <<fm_mb, fm_stop, fm_seen, fm_file, fm_bought, fm_tmp, fm_late>>
    /\ UNCHANGED FmOthers

\* lines 48-49: the line is written and the file closed
FmWrite(w) ==
    /\ spc = "mail_pool"
    /\ fm_pc[w] = "write"
    /\ fm_file' = Append(fm_file, fm_mb[w].email)
    /\ fm_open' = fm_open \ {w}
    /\ fm_late' = [fm_late EXCEPT ![w] = IF fm_stop THEN @ + 1 ELSE @]
    /\ fm_pc' = [fm_pc EXCEPT ![w] = "count_read"]
    /\ UNCHANGED <<fm_mb, fm_lock, fm_stop, fm_seen, fm_bought, fm_tmp>>
    /\ UNCHANGED FmOthers

\* line 50: bought += 1 reads bought ...
FmCountRead(w) ==
    /\ spc = "mail_pool"
    /\ fm_pc[w] = "count_read"
    /\ fm_tmp' = [fm_tmp EXCEPT ![w] = fm_bought]
    /\ fm_pc' = [fm_pc EXCEPT ![w] = "count_write"]
    /\ UNCHANGED <<fm_mb, fm_lock, fm_stop, fm_seen, fm_file, fm_bought, fm_open, fm_late>>
    /\ UNCHANGED FmOthers

\* ... and stores the sum
FmCountWrite(w) ==
    /\ spc = "mail_pool"
    /\ fm_pc[w] = "count_write"
    /\ fm_bought' = fm_tmp[w] + 1
    /\ fm_pc' = [fm_pc EXCEPT ![w] = "left"]
    /\ UNCHANGED <<fm_mb, fm_lock, fm_stop, fm_seen, fm_file, fm_tmp, fm_open, fm_late>>
    /\ UNCHANGED FmOthers

\* lines 73-79: a remaining count of 0 or less sets stop_event; the lock is
\* released and the loop goes on (local, which nothing reads, is left out)
FmLeft(w) ==
    /\ spc = "mail_pool"
    /\ fm_pc[w] = "left"
    /\ fm_stop' = (fm_stop \/ fm_mb[w].left = "not_positive")
    /\ fm_lock' = 0
    /\ fm_pc' = [fm_pc EXCEPT ![w] = "head"]
    /\ UNCHANGED <<fm_mb, fm_seen, fm_file, fm_bought, fm_tmp, fm_open, fm_late>>
    /\ UNCHANGED FmOthers

\* lines 57-80: one step of worker_loop on thread w
WorkerLoopStep(w) ==
    \/ FmCheckStop(w)
    \/ FmBuy(w)
    \/ FmAcquire(w)
    \/ FmCheckSeen(w)
    \/ FmOpen(w)
    \/ FmWrite(w)
    \/ FmCountRead(w)
    \/ FmCountWrite(w)
    \/ FmLeft(w)

\* lines 39-40, 54-55 and 83: the workers are submitted
FmStarted ==
    /\ fm_pc = [w \in Workers |-> "head"]
    /\ fm_mb = [w \in Workers |-> NoMail]
    /\ fm_lock = 0
    /\ fm_stop = FALSE
    /\ fm_seen = {}
    /\ fm_file = <<>>
    /\ fm_bought = 0
    /\ fm_tmp = [w \in Workers |-> 0]
    /\ fm_open = {}
    /\ fm_late = [w \in Workers |-> 0]

\* no pool runs
FmIdle ==
    /\ fm_pc = [w \in Workers |-> "done"]
    /\ fm_mb = [w \in Workers |-> NoMail]
    /\ fm_lock = 0
    /\ fm_stop = FALSE
    /\ fm_seen = {}
    /\ fm_file = <<>>
    /\ fm_bought = 0
    /\ fm_tmp = [w \in Workers |-> 0]
    /\ fm_open = {}
    /\ fm_late = [w \in Workers |-> 0]

(***************************************************************************)
(* wg_register_from_accounts.main: the pool of worker threads and          *)
(* get_thread_proxy_raw.                                                   *)
(***************************************************************************)
\* wg_register_from_accounts.py line 274: max(1, args.workers) threads
NumThreads == 3
Threads == 1..NumThreads
\* lines 200-205: the items of the mails file
NumItems == 4
ItemLists == [1..NumItems -> BOOLEAN]
\* lines 129-131: proxies_raw, from the proxy file or --proxy, or empty
ProxyLists == {<<>>, <<"p1">>, <<"p1", "p2">>}
\* line 141: thread_proxy_map.get(tid) of a thread without an entry
NoProxy == "none"

\* a variant of CycleNext that stays on the same entry
CycleStuck(pos, n) == pos

\* line 132 and 143: the position of itertools.cycle after next()
CycleNext(pos, n) == (pos % n) + 1

\* the variables a step of the registration pool leaves alone
WgOthers == <<gvars, bvars, spc, scroll_store, scroll_prev, scroll_last, find_call, clvars, fmvars,
              hwvars>>

\* lines 274-275 and 210-215: a thread of the pool takes the next item; an
\* item without a mailbox password is skipped
WgTake(t) ==
    /\ spc = "reg_pool"
    /\ wg_pc[t] = "idle"
    /\ wg_next <= Len(wg_items)
    /\ wg_next' = wg_next + 1
    /\ IF wg_items[wg_next]
       THEN /\ wg_pc' = [wg_pc EXCEPT ![t] = "proxy"]
            /\ wg_item' = [wg_item EXCEPT ![t] = wg_next]
       ELSE UNCHANGED <<wg_pc, wg_item>>
    /\ UNCHANGED <<wg_items, wg_proxies, wg_cycle, wg_plock, wg_map, wg_raw, wg_out,
                   wg_processed, wg_first, wg_given, wg_calls>>
    /\ UNCHANGED WgOthers

\* lines 221 and 137-139: without proxies get_thread_proxy_raw returns None
WgProxyCall(t) ==
    /\ spc = "reg_pool"
    /\ wg_pc[t] = "proxy"
    /\ IF wg_proxies = <<>>
       THEN /\ wg_pc' = [wg_pc EXCEPT ![t] = "register"]
            /\ wg_given' = [wg_given EXCEPT ![t] = @ \cup {NoProxy}]
            /\ wg_calls' = [wg_calls EXCEPT ![t] = @ + 1]
       ELSE /\ wg_pc' = [wg_pc EXCEPT ![t] = "lock"]
            /\ UNCHANGED <<wg_given, wg_calls>>
    /\ UNCHANGED <<wg_items, wg_next, wg_item, wg_proxies, wg_cycle, wg_plock, wg_map, wg_raw,
                   wg_out, wg_processed, wg_first>>
    /\ UNCHANGED WgOthers

\* line 140: with proxy_lock
WgLock(t) ==
    /\ spc = "reg_pool"
    /\ wg_pc[t] = "lock"
    /\ wg_plock = 0
    /\ wg_plock' = t
    /\ wg_pc' = [wg_pc EXCEPT ![t] = "get"]
    /\ UNCHANGED <<wg_items, wg_next, wg_item, wg_proxies, wg_cycle, wg_map, wg_raw, wg_out,
                   wg_processed, wg_first, wg_given, wg_calls>>
    /\ UNCHANGED WgOthers

\* lines 141-142: raw = thread_proxy_map.get(tid)
WgGet(t) ==
    /\ spc = "reg_pool"
    /\ wg_pc[t] = "get"
    /\ wg_raw' = [wg_raw EXCEPT ![t] = wg_map[t]]
    /\ wg_pc' = [wg_pc EXCEPT ![t] = IF wg_map[t] = NoProxy THEN "next" ELSE "unlock"]
    /\ UNCHANGED <<wg_items, wg_next, wg_item, wg_proxies, wg_cycle, wg_plock, wg_map, wg_out,
                   wg_processed, wg_first, wg_given, wg_calls>>
    /\ UNCHANGED WgOthers

\* line 143: raw = next(proxy_cycle)
WgNextProxy(t) ==
    /\ spc = "reg_pool"
    /\ wg_pc[t] = "next"
    /\ wg_raw' = [wg_raw EXCEPT ![t] = wg_proxies[wg_cycle]]
    /\ wg_cycle' = CycleNext(wg_cycle, Len(wg_proxies))
    /\ wg_first' = Append(wg_first, t)
    /\ wg_pc' = [wg_pc EXCEPT ![t] = "store"]
    /\ UNCHANGED <<wg_items, wg_next, wg_item, wg_proxies, wg_plock, wg_map, wg_out,
                   wg_processed, wg_given, wg_calls>>
    /\ UNCHANGED WgOthers

\* line 144: thread_proxy_map[tid] = raw
WgStore(t) ==
    /\ spc = "reg_pool"
    /\ wg_pc[t] = "store"
    /\ wg_map' = [wg_map EXCEPT ![t] = wg_raw[t]]
    /\ wg_pc' = [wg_pc EXCEPT ![t] = "unlock"]
    /\ UNCHANGED <<wg_items, wg_next, wg_item, wg_proxies, wg_cycle, wg_plock, wg_raw, wg_out,
                   wg_processed, wg_first, wg_given, wg_calls>>
    /\ UNCHANGED WgOthers

\* line 145: return raw, leaving the with-block
WgUnlock(t) ==
    /\ spc = "reg_pool"
    /\ wg_pc[t] = "unlock"
    /\ wg_plock' = 0
    /\ wg_given' = [wg_given EXCEPT ![t] = @ \cup {wg_raw[t]}]
    /\ wg_calls' = [wg_calls EXCEPT ![t] = @ + 1]
    /\ wg_pc' = [wg_pc EXCEPT ![t] = "register"]
    /\ UNCHANGED <<wg_items, wg_next, wg_item, wg_proxies, wg_cycle, wg_map, wg_raw, wg_out,
                   wg_processed, wg_first>>
    /\ UNCHANGED WgOthers

\* lines 225-262 and 268-269: the registration succeeds, fails or raises
WgRegister(t) ==
    /\ spc = "reg_pool"
    /\ wg_pc[t] = "register"
    /\ \E final_ok \in BOOLEAN :
         wg_pc' = [wg_pc EXCEPT ![t] = IF final_ok THEN "out" ELSE "count"]
    /\ UNCHANGED <<wg_items, wg_next, wg_item, wg_proxies, wg_cycle, wg_plock, wg_map, wg_raw,
                   wg_out, wg_processed, wg_first, wg_given, wg_calls>>
    /\ UNCHANGED WgOthers

\* lines 264-269: under lock_out the line is appended and the raw line noted;
\* an exception of the write is logged
WgOut(t) ==
    /\ spc = "reg_pool"
    /\ wg_pc[t] = "out"
    /\ \E io_ok \in BOOLEAN :
         wg_out' = IF io_ok THEN Append(wg_out, wg_item[t]) ELSE wg_out
    /\ wg_pc' = [wg_pc EXCEPT ![t] = "count"]
    /\ UNCHANGED <<wg_items, wg_next, wg_item, wg_proxies, wg_cycle, wg_plock, wg_map, wg_raw,
                   wg_processed, wg_first, wg_given, wg_calls>>
    /\ UNCHANGED WgOthers

\* lines 270-272: under lock_count, processed += 1; the thread is free again
WgCount(t) ==
    /\ spc = "reg_pool"
    /\ wg_pc[t] = "count"
    /\ wg_processed' = wg_processed + 1
    /\ wg_item' = [wg_item EXCEPT ![t] = 0]
    /\ wg_pc' = [wg_pc EXCEPT ![t] = "idle"]
    /\ UNCHANGED <<wg_items, wg_next, wg_proxies, wg_cycle, wg_plock, wg_map, wg_raw,
                   wg_out, wg_first, wg_given, wg_calls>>
    /\ UNCHANGED WgOthers

\* lines 210-272: one step of thread t
WorkerStep(t) ==
    \/ WgTake(t)
    \/ WgProxyCall(t)
    \/ WgLock(t)
    \/ WgGet(t)
    \/ WgNextProxy(t)
    \/ WgStore(t)
    \/ WgUnlock(t)
    \/ WgRegister(t)
    \/ WgOut(t)
    \/ WgCount(t)

\* lines 91, 129-134 and 200-208: before the pool starts
WgStarted(items, proxies) ==
    /\ wg_items = items
    /\ wg_next = 1
    /\ wg_pc = [t \in Threads |-> "idle"]
    /\ wg_item = [t \in Threads |-> 0]
    /\ wg_proxies = proxies
    /\ wg_cycle = 1
    /\ wg_plock = 0
    /\ wg_map = [t \in Threads |-> NoProxy]
    /\ wg_raw = [t \in Threads |-> NoProxy]
    /\ wg_out = <<>>
    /\ wg_processed = 0
    /\ wg_first = <<>>
    /\ wg_given = [t \in Threads |-> {}]
    /\ wg_calls = [t \in Threads |-> 0]

\* no pool runs: no items
WgIdle == WgStarted(<<>>, <<>>)

(***************************************************************************)
(* run_game_flow: the cached handle of the game window.                    *)
(***************************************************************************)
\* the window handles of the model; 0 stands for None
MaxHwnd == 3
Hwnds == 1..MaxHwnd
NoHwnd == 0

\* a variant of CacheUsable that trusts every cached handle
CacheUsableUnchecked(cache, windows) == cache # NoHwnd

\* line 101: _GAME_HWND_CACHE and win32gui.IsWindow(_GAME_HWND_CACHE)
CacheUsable(cache, windows) == cache # NoHwnd /\ cache \in windows

\* win/window_finder.py lines 14-47: the first window the title patterns find,
\* None without one
TitleSearch(titled) == IF titled = {} THEN {NoHwnd} ELSE titled

\* lines 97-108: what _get_game_hwnd may return, with the cache it leaves
GetGameHwnd(cache, windows, titled) ==
    IF CacheUsable(cache, windows)
    THEN {[ret |-> cache, cache |-> cache, searched |-> FALSE]}
    ELSE {[ret |-> h, cache |-> h, searched |-> TRUE] : h \in TitleSearch(titled)}

\* the steps of _close_game after which the window may be gone (lines 482-513)
CloseEnds == {"sc_close", "wm_close", "killed", "survived"}

\* the variables a step on the cache leaves alone
HwOthers == <<gvars, bvars, spc, scroll_store, scroll_prev, scroll_last, find_call, clvars, fmvars,
              wgvars>>

\* windows open and close, and change their titles, at any time
HwWorld ==
    /\ spc = "hwnd"
    /\ \E windows \in SUBSET Hwnds : \E titled \in SUBSET windows :
         /\ hw_windows' = windows
         /\ hw_titled' = titled
    /\ UNCHANGED <<hwnd_cache, hw_call, hw_before, hw_ret, hw_searched, hw_end>>
    /\ UNCHANGED HwOthers

\* lines 97-108: a call of _get_game_hwnd (from _focus_game or _game_region)
HwGet ==
    /\ spc = "hwnd"
    /\ \E g \in GetGameHwnd(hwnd_cache, hw_windows, hw_titled) :
         /\ hwnd_cache' = g.cache
         /\ hw_ret' = g.ret
         /\ hw_searched' = g.searched
    /\ hw_call' = "get"
    /\ hw_before' = <<hwnd_cache, hw_windows, hw_titled>>
    /\ hw_end' = "none"
    /\ UNCHANGED <<hw_windows, hw_titled>>
    /\ UNCHANGED HwOthers

\* lines 474-521: a call of _close_game. Without a window it returns before the
\* try; otherwise the window goes after SC_CLOSE, after WM_CLOSE or with its
\* process, or survives all three, and the finally clause clears the cache
HwClose ==
    /\ spc = "hwnd"
    /\ \E g \in GetGameHwnd(hwnd_cache, hw_windows, hw_titled) :
         /\ hw_ret' = g.ret
         /\ hw_searched' = g.searched
         /\ IF g.ret = NoHwnd
            THEN /\ hwnd_cache' = g.cache
                 /\ hw_end' = "no_window"
                 /\ UNCHANGED <<hw_windows, hw_titled>>
            ELSE \E e \in CloseEnds :
                   /\ hw_end' = e
                   /\ hwnd_cache' = NoHwnd
                   /\ hw_windows' = IF e = "survived" THEN hw_windows ELSE hw_windows \ {g.ret}
                   /\ hw_titled' = IF e = "survived" THEN hw_titled ELSE hw_titled \ {g.ret}
    /\ hw_call' = "close"
    /\ hw_before' = <<hwnd_cache, hw_windows, hw_titled>>
    /\ UNCHANGED HwOthers

\* line 51: no handle is cached; some windows exist
HwStarted(windows, titled) ==
    /\ hwnd_cache = NoHwnd
    /\ hw_windows = windows
    /\ hw_titled = titled
    /\ hw_call = "none"
    /\ hw_before = <<NoHwnd, windows, titled>>
    /\ hw_ret = NoHwnd
    /\ hw_searched = FALSE
    /\ hw_end = "none"

HwIdle == HwStarted({}, {})

PoolsIdle == FmIdle /\ WgIdle /\ HwIdle

\* neither the scroll memory nor a classifier of its own is in use
ExtrasIdle ==
    /\ spc = "idle"
    /\ ScrollIdle
    /\ PoolsIdle
    /\ ClassifierIdle

\* the in-game flow with hotkeys, on every dataset
Init ==
    /\ index \in Indexes
    /\ max_secs = MaxSecs
    /\ no_hotkeys = FALSE
    /\ InitLoop
    /\ BatchIdle
    /\ ExtrasIdle
Next == NextGame
Spec == Init /\ [][Next]_vars

\* the in-game flow without hotkeys and with a budget of several stuck periods
InitStuck ==
    /\ index \in PairIndexes
    /\ max_secs = MaxSecsStuck
    /\ no_hotkeys = TRUE
    /\ InitLoop
    /\ BatchIdle
    /\ ExtrasIdle
SpecStuck == InitStuck /\ [][NextNoHotkeys]_vars

\* a dataset holding the scenes the stage handlers of the post phase wait for
PipelineIndex ==
    {"game_video", "game_vibor_tanka", "game_nagrada_screen1",
     "game_nagrada_screen2"}

\* the flow without hotkeys over the pipeline's scenes, with a budget long
\* enough for both rewards
InitPipeline ==
    /\ index = PipelineIndex
    /\ max_secs = MaxSecsStuck
    /\ no_hotkeys = TRUE
    /\ InitLoop
    /\ BatchIdle
    /\ ExtrasIdle
SpecPipeline == InitPipeline /\ [][NextNoHotkeys]_vars

\* the pipeline's scenes with a final scene
FinalIndex == PipelineIndex \cup {"game_ungar"}

\* a budget that lets the first reward be claimed and acknowledged
MaxSecsFinal == 12

\* the flow without hotkeys on a dataset whose final scene may show at any stage
InitFinal ==
    /\ index = FinalIndex
    /\ max_secs = MaxSecsFinal
    /\ no_hotkeys = TRUE
    /\ InitLoop
    /\ BatchIdle
    /\ ExtrasIdle
SpecFinal == InitFinal /\ [][NextNoHotkeys]_vars

\* run_all over an abstract run_one process, on accounts files of every shape
InitAccounts ==
    /\ GameIdle
    /\ ExtrasIdle
    /\ InitRunAll(FilesOf(AccountLines))
NextAccounts ==
    \/ RaStart
    \/ RaNextAccount
    \/ RaSpawn
    \/ ChildExits
    \/ RaReap
    \/ RaRecord
SpecAccounts == InitAccounts /\ [][NextAccounts]_vars

\* run_all with its run_one processes and their login attempts, on accounts
\* files of well-formed lines
InitBatch ==
    /\ GameIdle
    /\ ExtrasIdle
    /\ InitRunAll(PlainFiles)
NextBatch ==
    \/ RaStart
    \/ RaNextAccount
    \/ RaSpawn
    \/ RaReap
    \/ RaRecord
    \/ RoStart
    \/ RoCallLogin
    \/ RoLoginReturn
    \/ RoAfterLogin
    \/ RoGameFlow
    \/ LoStart
    \/ LoWaitMain
    \/ LoWaitMain2
    \/ LoStates
    \/ LoRaises
    \/ LoWaitReturn
    \/ LoWaitWindow
SpecBatch == InitBatch /\ [][NextBatch]_vars

\* the scroll memory under any sequence of writes, starting with no files
InitScroll ==
    /\ GameIdle
    /\ BatchIdle
    /\ spc = "scroll"
    /\ ScrollIdle
    /\ PoolsIdle
    /\ ClassifierIdle
NextScroll == ScrollWrite
SpecScroll == InitScroll /\ [][NextScroll]_vars

\* searches for the tanks, one after another, on the files they leave
InitFind ==
    /\ GameIdle
    /\ BatchIdle
    /\ spc = "find"
    /\ ScrollIdle
    /\ PoolsIdle
    /\ ClassifierIdle
NextFind == FindTank
SpecFind == InitFind /\ [][NextFind]_vars

\* the pool of firstmail_buy; every thread of the pool keeps running
InitMailPool ==
    /\ GameIdle
    /\ BatchIdle
    /\ spc = "mail_pool"
    /\ ScrollIdle
    /\ ClassifierIdle
    /\ FmStarted
    /\ WgIdle
    /\ HwIdle
NextMailPool == \E w \in Workers : WorkerLoopStep(w)
SpecMailPool ==
    InitMailPool /\ [][NextMailPool]_vars /\ \A w \in Workers : WF_vars(WorkerLoopStep(w))

\* the pool of wg_register_from_accounts on every list of items and proxies
InitRegPool ==
    /\ GameIdle
    /\ BatchIdle
    /\ spc = "reg_pool"
    /\ ScrollIdle
    /\ ClassifierIdle
    /\ FmIdle
    /\ HwIdle
    /\ \E items \in ItemLists, proxies \in ProxyLists : WgStarted(items, proxies)
NextRegPool == \E t \in Threads : WorkerStep(t)
SpecRegPool == InitRegPool /\ [][NextRegPool]_vars

\* the handle cache against windows that come and go
InitHwnd ==
    /\ GameIdle
    /\ BatchIdle
    /\ spc = "hwnd"
    /\ ScrollIdle
    /\ ClassifierIdle
    /\ FmIdle
    /\ WgIdle
    /\ \E windows \in SUBSET Hwnds : \E titled \in SUBSET windows : HwStarted(windows, titled)
NextHwnd ==
    \/ HwWorld
    \/ HwGet
    \/ HwClose
SpecHwnd == InitHwnd /\ [][NextHwnd]_vars

\* the steps run_all takes itself
RunAllStep ==
    \/ RaStart
    \/ RaNextAccount
    \/ RaSpawn
    \/ RaReap
    \/ RaRecord

\* run_all over run_one processes that may end with any code or never end:
\* run_all takes a step whenever it can, a child is not required to end
InitChildren ==
    /\ GameIdle
    /\ ExtrasIdle
    /\ InitRunAll(PlainFiles)
SpecChildren == InitChildren /\ [][NextAccounts]_vars /\ WF_vars(RunAllStep)

\* the steps of the in-game flow's own thread (the hotkey callbacks are the
\* user's)
LoopStep ==
    \/ BudgetExpired
    \/ StopBreak
    \/ PauseSleep
    \/ ThrottleSleep
    \/ CaptureFail
    \/ Tick
    \/ Exit

\* the steps of one run_one process and of the login_once calls it makes
NextRunOne ==
    \/ RoStart
    \/ RoCallLogin
    \/ RoLoginReturn
    \/ RoAfterLogin
    \/ RoGameFlow
    \/ LoStart
    \/ LoWaitMain
    \/ LoWaitMain2
    \/ LoStates
    \/ LoRaises
    \/ LoWaitReturn
    \/ LoWaitWindow

\* run_all.py line 129: run_all has started the first run_one process of
\* its first account and waits for it
InitRunOne ==
    /\ GameIdle
    /\ ExtrasIdle
    /\ setup_ok = TRUE
    /\ accounts_file = SubSeq(PlainFile, 1, 1)
    /\ queue = ReadAccounts(accounts_file)
    /\ acct = 1
    /\ ra_pc = "wait"
    /\ ra_attempt = 1
    /\ rc = 1
    /\ success_lists = [name \in SuccessListNames |-> <<>>]
    /\ error_list = <<>>
    /\ file_before = <<>>
    /\ appends = <<0, 0>>
    /\ removes = 0
    /\ ro_pc = "start"
    /\ ro_attempt = 0
    /\ ok = FALSE
    /\ invalid_creds = FALSE
    /\ ro_exit = -1
    /\ lo_pc = "none"
    /\ lo_i = 0
    /\ made_progress = FALSE
    /\ lo_result = "none"
    /\ lo_end = "none"
    /\ submitted = FALSE
    /\ acted = FALSE
    /\ lo_search = NoSearch
    /\ ro_cause = "none"
    /\ class_codes = [c \in OutcomeClasses |-> {}]
    /\ inv_seen = FALSE
    /\ calls_after_invalid = 0
    /\ spawns_after_invalid = 0

\* the in-game flow with hotkeys on an empty dataset, on the pipeline's
\* scenes and on a dataset that leads to the final scene
InitLoopRunning ==
    /\ index \in {EmptyIndex, PipelineIndex, {"game_video", "game_ungar"}}
    /\ max_secs = MaxSecs
    /\ no_hotkeys = FALSE
    /\ InitLoop
    /\ BatchIdle
    /\ ExtrasIdle

\* the in-game flow and a run_one process, each as a process that keeps
\* running: the loop's thread and the run_one process take a step whenever
\* they can
InitRunning == InitLoopRunning \/ InitRunOne
NextRunning == NextGame \/ NextRunOne
SpecRunning ==
    InitRunning /\ [][NextRunning]_vars /\ WF_vars(LoopStep) /\ WF_vars(NextRunOne)

\* a classifier on every dataset root, asked about every hash
InitClassifier ==
    /\ GameIdle
    /\ BatchIdle
    /\ spc = "classifier"
    /\ ScrollIdle
    /\ PoolsIdle
    /\ cl_dataset \in Datasets
    /\ cl_query \in Hashes
    /\ ClassifierNew
NextClassifier ==
    \/ ClLoad
    \/ ClLoadOther
    \/ ClClassify
SpecClassifier == InitClassifier /\ [][NextClassifier]_vars

\* the result file for every sequence of selections of at most MaxChosen items
MaxChosen == 4

\* lines 829 and 888: chosen_tanks.append
ResAppend ==
    /\ spc = "result"
    /\ gpc = "loop"
    /\ Len(chosen_tanks) < MaxChosen
    /\ \E id \in TankIds : chosen_tanks' = Append(chosen_tanks, id)
    /\ UNCHANGED <<index, max_secs, no_hotkeys, clock, last_tick, phase, classify_paused, post_stage,
                   reward_click_time, final_wait_start, reached_ungar, stop_requested,
                   user_paused, last_state_seen, state_repeat_count,
                   gpc, loop_end, exit_code, branch,
                   run_scene, run_len, run_recoveries, term_first, term_held,
                   seen7_first, term_run, closes, rvars>>
    /\ UNCHANGED <<bvars, xvars>>

\* lines 576-580 and 933-935: the loop ends, with or without the final scene
ResLoopEnd ==
    /\ spc = "result"
    /\ gpc = "loop"
    /\ gpc' = "after_loop"
    /\ \E reached \in BOOLEAN :
          /\ reached_ungar' = reached
          /\ loop_end' = IF reached THEN "final" ELSE "budget"
    /\ UNCHANGED <<index, max_secs, no_hotkeys, clock, last_tick, phase, classify_paused, post_stage,
                   reward_click_time, final_wait_start, stop_requested,
                   user_paused, chosen_tanks, last_state_seen, state_repeat_count,
                   exit_code, branch,
                   run_scene, run_len, run_recoveries, term_first, term_held,
                   seen7_first, term_run, closes, rvars>>
    /\ UNCHANGED <<bvars, xvars>>

InitResult ==
    /\ index = EmptyIndex
    /\ max_secs = MaxSecs
    /\ no_hotkeys = TRUE
    /\ InitLoopLocals
    /\ res_requested \in BOOLEAN
    /\ res_writes = <<>>
    /\ res_end = "none"
    /\ BatchIdle
    /\ spc = "result"
    /\ ScrollIdle
    /\ PoolsIdle
    /\ ClassifierIdle

NextResult ==
    \/ ResAppend
    \/ ResLoopEnd
    \/ Exit

SpecResult == InitResult /\ [][NextResult]_vars


(***************************************************************************)
(* Claims about the in-game flow.                                          *)
(***************************************************************************)

\* C1: the exit code of the in-game flow is 0 if and only if a final scene
\* (game_ungar or game_nagrada_code) was observed in phase post and was
\* observed again once the 5-second grace period had passed.
C1_ExitCodePartition ==
    gpc = "exited" => (exit_code = 0 <=> term_held)

\* C2: when the loop ends by budget expiry or by the stop hotkey, success is
\* not reported: reached_ungar is false and the exit code is 2.
C2_NoSuccessWithoutFinalScene ==
    loop_end \in {"budget", "stop"} =>
        /\ ~reached_ungar
        /\ gpc = "exited" => exit_code = 2

\* C2 witness: the budget expired at the final stage while the grace wait
\* was running, and the process has exited.
C2_Witness ==
    /\ gpc = "exited"
    /\ loop_end = "budget"
    /\ post_stage = 7
    /\ final_wait_start # 0

\* C3 as claimed: success is declared only after an unbroken series of
\* final-scene ticks that spans the grace period.
C3_GraceFromUnbrokenRun ==
    reached_ungar => last_tick - term_run >= GRACE_SECS

\* C3 as amended: the grace period runs from the first final-scene tick
\* handled at the final stage; final_wait_start is that instant and is never
\* restarted, ticks before it has passed wait, and success is declared only
\* GRACE_SECS or more after it.
C3_GraceFromFirstSighting ==
    /\ final_wait_start = seen7_first
    /\ branch = "stage7_grace" => last_tick - seen7_first < GRACE_SECS
    /\ reached_ungar => last_tick - seen7_first >= GRACE_SECS

\* C3 witness: success was declared on a final-scene tick whose own unbroken
\* series is shorter than the grace period (other scenes came in between).
C3_Witness ==
    /\ reached_ungar
    /\ last_tick - term_run < GRACE_SECS
    /\ last_tick - seen7_first >= GRACE_SECS

\* C9: fewer than STUCK_THRESHOLD identical accepted classifications in a
\* row fire no recovery; the STUCK_THRESHOLD-th fires exactly one and resets
\* the repeat counter to 0; the scene that follows starts a run with none.
C9_StuckThreshold ==
    /\ run_len \in 1..(STUCK_THRESHOLD - 1) => run_recoveries = 0
    /\ run_len = STUCK_THRESHOLD => (run_recoveries = 1 /\ state_repeat_count = 0)

\* C9 witness: the STUCK_THRESHOLD-th identical classification has happened.
C9_Witness ==
    /\ run_len = STUCK_THRESHOLD
    /\ run_recoveries = 1
    /\ branch = "recovery"

\* C10: recovery is periodic: within a run of identical classifications it
\* has fired once per STUCK_THRESHOLD ticks, the counter restarts from 0 after
\* each, last_state_seen is kept, and a new scene starts at 1.
C10_StuckPeriodic ==
    /\ state_repeat_count = run_len % STUCK_THRESHOLD
    /\ run_recoveries = run_len \div STUCK_THRESHOLD
    /\ last_state_seen = run_scene

\* C10 witness: the second recovery of one run, on its 20th tick.
C10_Witness ==
    /\ run_len = 2 * STUCK_THRESHOLD
    /\ run_recoveries = 2
    /\ branch = "recovery"

(***************************************************************************)
(* Claims about the batch driver and the accounts file.                    *)
(***************************************************************************)
\* C7: processing an account that _read_accounts yielded removes exactly one
\* line of the accounts file, the first one holding the account's email and
\* password; the other lines are kept in order and the file gets one line
\* shorter (also when the line starts with a BOM).
C7_RemovesFirstMatchingLine ==
    (ra_pc = "next" /\ removes = 1) =>
        LET hits == {i \in 1..Len(file_before) :
                        ReaderCreds(file_before[i]) = <<queue[acct]>>}
            first == CHOOSE i \in hits : \A j \in hits : i <= j
        IN  /\ hits # {}
            /\ accounts_file = SubSeq(file_before, 1, first - 1)
                                 \o SubSeq(file_before, first + 1, Len(file_before))
            /\ Len(accounts_file) = Len(file_before) - 1

C4_ExitCodesPartitionOutcomes ==
    /\ class_codes["success"] \subseteq {0}
    /\ \A c \in OutcomeClasses \ {"success"} : 0 \notin class_codes[c]
    /\ \A c, d \in OutcomeClasses : c # d => class_codes[c] \cap class_codes[d] = {}

\* C5: when login_once submitted the credentials without an error indicator,
\* clicked Play and the game window did not appear within the bound, the
\* call ends with GameStartTimeoutError reaching the caller.
C5_TimeoutReachesCaller ==
    (lo_pc = "returned" /\ submitted /\ lo_end = "window_timeout")
        => lo_result = "GameStartTimeoutError"

\* C6: once login_once raised LoginInvalidError for an account, run_one
\* calls login_once no more and exits with code 3, and run_all starts no
\* further run_one process for the account.
C6_InvalidNeverRetried ==
    inv_seen =>
        /\ calls_after_invalid = 0
        /\ spawns_after_invalid = 0
        /\ ro_pc = "exited" => ro_exit = 3
        /\ ra_pc \in {"record", "next"} => rc = 3
        /\ ra_pc = "next" => error_list # <<>> /\ error_list[Len(error_list)] = queue[acct]

\* C6 witness: the error indicator was found in the first login attempt of
\* the first run_one process, and run_all has finished with the account.
C6_Witness ==
    /\ inv_seen
    /\ ra_pc = "next"
    /\ ra_attempt < RUN_ONE_ATTEMPTS
    /\ ro_attempt < LOGIN_ATTEMPTS
    /\ rc = 3

(***************************************************************************)
(* Claims about the scroll memory, the phases and the stages.              *)
(***************************************************************************)
\* C11: the step count stored for a tank never increases: a write of a
\* greater value leaves the stored value unchanged, a write of a smaller one
\* replaces it, also when the stored value is 0.
C11_ScrollCountNeverIncreases ==
    LET tank_id == scroll_last[1]
        count == scroll_last[2]
        old == scroll_prev[tank_id]
    IN  old # NoFile =>
          /\ scroll_store[tank_id] <= old
          /\ scroll_store[tank_id] = Min2(old, count)

\* C12 as stated: a classified scene outside the allow-list of the current
\* phase changes neither phase nor post_stage on that tick, game_video and
\* the final scenes included.
C12_GatingCoversVideo ==
    (gpc = "loop" /\ ~classify_paused) =>
        \A raw \in ClassifyResults(index), d \in 0..MaxTickSecs,
           tank_ok \in TankResults, reward_ok \in RewardResults :
            LET state == NormalizeState(raw)
                res == LoopBody(Locals, raw, clock, clock + d, tank_ok, reward_ok)
                outside == \/ phase = "pre" /\ state \notin PHASE_PRE_ALLOWED
                           \/ phase = "tutorial" /\ state \notin PHASE_TUTORIAL_ALLOWED
            IN  (state # NoScene /\ outside)
                    => (res.phase = phase /\ res.post_stage = post_stage)

\* C12: a classified scene outside the allow-list of the current phase,
\* other than game_video, changes neither phase nor post_stage on that tick
\* (the final scenes included); game_video classified before phase post
\* switches the phase to post.
C12_GatingExceptVideo ==
    (gpc = "loop" /\ ~classify_paused) =>
        \A raw \in ClassifyResults(index), d \in 0..MaxTickSecs,
           tank_ok \in TankResults, reward_ok \in RewardResults :
            LET state == NormalizeState(raw)
                res == LoopBody(Locals, raw, clock, clock + d, tank_ok, reward_ok)
                outside == \/ phase = "pre" /\ state \notin PHASE_PRE_ALLOWED
                           \/ phase = "tutorial" /\ state \notin PHASE_TUTORIAL_ALLOWED
            IN  /\ (state \notin {NoScene, "game_video"} /\ outside)
                    => (res.phase = phase /\ res.post_stage = post_stage)
                /\ (state = "game_video" /\ phase # "post") => res.phase = "post"

\* C12 witness: a tick in phase pre has classified a scene outside the
\* allow-list and the iteration ended at the filter (or at the final-scene
\* test) with phase and stage as they were.
C12_Witness ==
    /\ branch \in {"filtered", "final_ignored"}
    /\ phase = "pre"
    /\ post_stage = 0
    /\ last_tick > 0

\* C13: the phase only moves along pre -> tutorial -> post: once post it
\* never becomes tutorial or pre again, once tutorial it never becomes pre.
C13_PhaseOneDirectional ==
    [][/\ (phase = "post" => phase' = "post")
       /\ (phase = "tutorial" => phase' # "pre")]_vars

\* lines 766-926: the values of post_stage in the order of their handlers
StageOrder == <<0, 1, 2, 31, 32, 33, 4, 42, 51, 52, 53, 7>>

\* C14: whenever post_stage changes it moves to a later stage of the
\* pipeline order 0, 1, 2, 31, 32, 33, 4, 42, 51, 52, 53, 7, the one
\* exception being the fallback from stage 2 to stage 1.
C14_StagesMoveForward ==
    [][LET Pos(st) == CHOOSE i \in DOMAIN StageOrder : StageOrder[i] = st
       IN  post_stage' # post_stage =>
              \/ Pos(post_stage') > Pos(post_stage)
              \/ post_stage = 2 /\ post_stage' = 1]_vars

\* C14 witness: both rewards were taken and the last stage of the second
\* reward has handed over to the final wait, so the whole pipeline was walked.
C14_Witness ==
    /\ branch = "stage53_done"
    /\ post_stage = 7
    /\ chosen_tanks = <<"is7", "fv4005">>

\* C15: a classifier that loaded zero templates is fatal: with an empty
\* index the in-game flow does not enter its tick loop, so no tick ever
\* classifies an image against the empty index.
C15_EmptyIndexNeverTicks == index = EmptyIndex => branch # "no_match"

(***************************************************************************)
(* Claims about the scene classifier.                                      *)
(***************************************************************************)
\* C16: classify returns None exactly when the index holds no scene; on a
\* non-empty index it returns a match for every query, whatever the distance.
C16_NoneIffEmptyIndex ==
    cl_match # NotClassified =>
        /\ (cl_match = NoStateMatch <=> cl_asked = <<>>)
        /\ (cl_asked # <<>> => cl_match.state \in SceneKeys(cl_asked))

\* C16 witness: classify returned a match whose distance is the greatest
\* two hashes can have.
C16_Witness ==
    /\ cl_asked # <<>>
    /\ cl_match.state \in SceneDirs
    /\ cl_match.distance = Cardinality(HashBits)

\* C17: on a non-empty index classify returns the template of minimum
\* Hamming distance to the query, and of several at that distance the one
\* met first in iteration order (scenes in insertion order, then the
\* templates of a scene in their order).
C17_NearestFirstMet ==
    (cl_match # NotClassified /\ cl_asked # <<>>) =>
        LET tpls == IndexTemplates(cl_asked)
            k == cl_match.template
        IN  /\ k \in DOMAIN tpls
            /\ cl_match.state = tpls[k].state
            /\ cl_match.distance = Hamming(cl_query, tpls[k].hash)
            /\ \A j \in DOMAIN tpls :
                  /\ Hamming(cl_query, tpls[j].hash) >= cl_match.distance
                  /\ Hamming(cl_query, tpls[j].hash) = cl_match.distance => j >= k

\* C17 witness: a template of login_menu and a later template of main_menu
\* are equally near to the query, and classify returned login_menu.
C17_Witness ==
    /\ cl_match.state = "login_menu"
    /\ \E j \in DOMAIN IndexTemplates(cl_asked) :
          /\ j > cl_match.template
          /\ IndexTemplates(cl_asked)[j].state = "main_menu"
          /\ Hamming(cl_query, IndexTemplates(cl_asked)[j].hash) = cl_match.distance

\* C18: a second load of the same root, on the same instance or on another
\* one, gives an index with the same nearest-match distance for every query
\* and returns the same count as the first load.
C18_LoadIdempotent ==
    LET SameDistances(a, b) ==
            \A h \in Hashes : Classify(a, h).distance = Classify(b, h).distance
    IN  /\ cl_loads = 2 =>
              /\ SameDistances(cl_first.index, cl_index)
              /\ cl_total = cl_first.total
        /\ (cl_loads >= 1 /\ cl_other.total # -1) =>
              /\ SameDistances(cl_first.index, cl_other.index)
              /\ cl_other.total = cl_first.total

\* C18 witness: load ran twice on one instance and once on another, on a
\* root with templates in both scene directories.
C18_Witness ==
    /\ cl_loads = 2
    /\ cl_other.total # -1
    /\ SceneKeys(cl_index) = SceneDirs
    /\ cl_total >= 3

\* C19: after load every scene key owns at least one template, a directory
\* without a valid image is no key, no spelling of 'templates' is a key, and
\* the count a first load returns is the number of templates in the index.
C19_IndexWellFormed ==
    cl_loads >= 1 =>
        /\ \A i \in DOMAIN cl_index : Len(cl_index[i][2]) >= 1
        /\ \A name \in DOMAIN cl_dataset :
              (\A i \in DOMAIN cl_dataset[name].files :
                   ~(cl_dataset[name].files[i].suffix_ok /\ cl_dataset[name].files[i].opens))
                  => name \notin SceneKeys(cl_index)
        /\ \A key \in SceneKeys(cl_index) : key \notin ReservedDirs
        /\ cl_loads = 1 => cl_total = Len(IndexTemplates(cl_index))

\* C19 witness: a first load of a root whose login_menu directory holds
\* files but no valid image, whose main_menu directory holds one, and whose
\* reserved directory is spelled with capitals.
C19_Witness ==
    /\ cl_loads = 1
    /\ Len(cl_dataset["login_menu"].files) = MaxTemplates
    /\ SceneKeys(cl_index) = {"main_menu"}
    /\ "TEMPLATES" \in DOMAIN cl_dataset
    /\ cl_total = 1

(***************************************************************************)
(* Claims about the login attempt.                                         *)
(***************************************************************************)
\* C20: a login attempt clicks Play only after one of the progress actions
\* (credentials submitted, logout clicked, dismiss icon clicked, account-add
\* triggered) happened in its state loop; an attempt whose state loop ran
\* without any of them returns False.
C20_NoPlayWithoutProgress ==
    LET play_clicked ==
            \/ lo_pc = "wait_window"
            \/ lo_pc = "returned"
               /\ lo_end \in {"window", "window_timeout", "window_check_failed"}
    IN  /\ play_clicked => acted
        /\ lo_end = "no_progress" => (lo_result = "False" /\ ~acted)
        /\ (lo_pc = "returned" /\ ~acted /\ lo_end # "exception")
              => lo_result = "False"

\* C20 witness: the state loop used up its polls without a progress action
\* and the attempt returned False at the guard.
C20_Witness ==
    /\ lo_pc = "returned"
    /\ lo_end = "no_progress"
    /\ lo_result = "False"
    /\ ~acted

\* C21: Play is clicked only in an attempt that submitted the credentials on
\* the login form without an error indicator.
C21_PlayOnlyAfterSubmit ==
    (\/ lo_pc = "wait_window"
     \/ lo_pc = "returned"
        /\ lo_end \in {"window", "window_timeout", "window_check_failed"})
        => submitted

\* C22: on account_is_login the logout template is located at most
\* MAX_SCROLL_TRIES times, with one scroll after each miss; when it is found
\* it is clicked and the state loop continues; when it is not found within
\* the bound, or its file is missing, login_once returns False without
\* clicking Play.
C22_LogoutSearchBounded ==
    lo_search # NoSearch =>
        /\ lo_search.locates <= MAX_SCROLL_TRIES
        /\ lo_search.clicked =>
              /\ lo_search.locates >= 1
              /\ lo_search.scrolls = lo_search.locates - 1
              /\ lo_search.ctl = "continue"
              /\ made_progress
              /\ lo_end # "logout_missing"
        /\ ~lo_search.clicked =>
              /\ lo_search.locates \in {0, MAX_SCROLL_TRIES}
              /\ lo_search.scrolls = lo_search.locates
              /\ lo_search.ctl = "return"
              /\ lo_pc \in {"returned", "none"}
              /\ lo_result = "False"
              /\ lo_end = "logout_missing"

\* C22 witness: every locate of the bound missed and the attempt returned
\* False.
C22_Witness ==
    /\ lo_search.locates = MAX_SCROLL_TRIES
    /\ lo_search.scrolls = MAX_SCROLL_TRIES
    /\ ~lo_search.clicked
    /\ lo_pc = "returned"
    /\ lo_result = "False"

(***************************************************************************)
(* Claims about pause, stop and termination.                               *)
(***************************************************************************)
\* C23: while the pause flag is set the loop only sleeps: no step changes
\* phase, post_stage, classify_paused, the stuck detector's pair, the reward
\* and grace timers, the chosen tanks or the tick time, no tick branch is
\* taken (no input is issued), and a paused iteration moves the clock on.
C23_PauseOnlySleeps ==
    [][(gpc = "loop" /\ user_paused) =>
          /\ UNCHANGED <<phase, post_stage, classify_paused, last_state_seen,
                         state_repeat_count, reward_click_time, final_wait_start,
                         chosen_tanks, reached_ungar, last_tick>>
          /\ branch' \in {branch, "paused"}
          /\ (user_paused' /\ ~stop_requested' /\ gpc' = "loop") => clock' > clock]_vars

\* C23 witness: a paused iteration has slept in the middle of the post
\* phase.
C23_Witness ==
    /\ branch = "paused"
    /\ user_paused
    /\ phase = "post"
    /\ post_stage > 0
    /\ state_repeat_count > 0

\* C24: once the stop flag is set the loop runs no further iteration: its
\* next step is the exit at the start of the iteration, without sleeping,
\* classifying, issuing input or changing phase or stage, also when the
\* pause flag is set.
C24_StopExitsAtIterationStart ==
    [][(gpc = "loop" /\ stop_requested) =>
          /\ UNCHANGED <<phase, post_stage, classify_paused, last_state_seen,
                         state_repeat_count, reward_click_time, final_wait_start,
                         chosen_tanks, reached_ungar, last_tick, clock, branch>>
          /\ \/ gpc' = "after_loop" /\ loop_end' \in {"stop", "budget"}
             \/ gpc' = "loop" /\ user_paused' # user_paused]_vars

\* C24 witness: the loop was left on the stop flag while the pause flag was
\* set, after ticks had run.
C24_Witness ==
    /\ gpc = "after_loop"
    /\ loop_end = "stop"
    /\ user_paused
    /\ last_tick > 0

\* C25: nothing blocks for ever: every call of login_once ends (it returns
\* or raises) and its poll counters stay within their bounds; the tick loop
\* ends, also when it stays paused, when capture keeps failing and when
\* nothing is classified, and no iteration starts after max_secs.
C25_NothingBlocks ==
    /\ (lo_pc = "start") ~> (lo_pc = "returned")
    /\ (gpc = "loop") ~> (gpc = "exited")
    /\ [](/\ lo_pc = "wait_main" => lo_i < MAIN_MENU_POLLS
          /\ lo_pc = "wait_main2" => lo_i < MAIN_MENU_RETRY_POLLS
          /\ lo_pc = "states" => lo_i < STATE_POLLS
          /\ lo_pc = "wait_return" => lo_i < RETURN_POLLS
          /\ lo_pc = "wait_window" => lo_i < WINDOW_WAIT_POLLS
          /\ gpc = "loop" => clock - t0 < max_secs + MaxTickSecs)

\* C25 witness: the loop ran out of its budget while the pause flag was set.
C25_Witness ==
    /\ gpc = "exited"
    /\ loop_end = "budget"
    /\ user_paused
    /\ branch = "paused"

\* C26: run_all starts at most RUN_ONE_ATTEMPTS run_one processes for an
\* account, and a process that hangs is cut off by run_all, so run_all never
\* waits for a process for ever: after the attempts the account is recorded
\* and run_all goes on.
C26_HungChildIsAbandoned ==
    /\ [](ra_attempt <= RUN_ONE_ATTEMPTS)
    /\ (ra_pc = "wait") ~> (ra_pc # "wait")

(***************************************************************************)
(* Claims about the result file and the scroll search.                     *)
(***************************************************************************)
\* C27: the result file is written once, after the loop, whether or not the
\* final scene was reached; when the write goes through, the file holds each
\* selected identifier once, in the order of first selection, separated by
\* commas, and nothing is written before the end of the run.
C27_ResultPayload ==
    LET present == {id \in TankIds : \E i \in 1..Len(chosen_tanks) : chosen_tanks[i] = id}
        first(id) == CHOOSE i \in 1..Len(chosen_tanks) :
                        /\ chosen_tanks[i] = id
                        /\ \A j \in 1..(i - 1) : chosen_tanks[j] # id
        expected == IF present = {} THEN ""
                    ELSE IF \E id \in TankIds : present = {id}
                    THEN CHOOSE id \in TankIds : present = {id}
                    ELSE LET a == CHOOSE id \in present : \A o \in present : first(id) <= first(o)
                             b == CHOOSE id \in present : id # a
                         IN  a \o "," \o b
    IN  /\ Len(res_writes) <= 1
        /\ gpc # "exited" => res_writes = <<>> /\ res_end = "none"
        /\ gpc = "exited" /\ res_requested /\ res_end # "io_error" => res_end = "written"
        /\ res_end = "written" => res_writes = <<expected>>

C27_Witness ==
    /\ gpc = "exited"
    /\ ~reached_ungar
    /\ exit_code = 2
    /\ chosen_tanks = <<"fv4005", "is7", "fv4005">>
    /\ res_writes = <<"fv4005,is7">>

\* what a search returns and does, the file after a hit of the scan aside:
\* with a positive saved count it scrolls to the top and replays that many
\* steps; a hit there returns (True, saved) without a write; otherwise the
\* scan from the top returns (True, k) at the first step k with a hit, or
\* (False, max_steps) after max_steps probes without one and without a write
SearchOutcome ==
    LET c == find_call
        saved == ReadScrollCount(scroll_prev, c.tank_id)
        hits == {i \in 0..(c.max_steps - 1) : c.probes[i]}
        k == CHOOSE i \in hits : \A j \in hits : i <= j
    IN  c.tank_id # "none" =>
          /\ saved > 0 => c.tops >= 1 /\ c.replayed = saved
          /\ saved > 0 /\ c.at_saved =>
                /\ c.found /\ c.used = saved /\ c.clicks = 1
                /\ ~c.scanned /\ c.writes = 0 /\ scroll_store = scroll_prev
          /\ ~(saved > 0 /\ c.at_saved) =>
                /\ c.scanned
                /\ saved > 0 => c.tops = 2
                /\ hits # {} => c.found /\ c.used = k /\ c.probed = k + 1 /\ c.clicks = 1
                /\ hits = {} =>
                      /\ ~c.found /\ c.used = c.max_steps /\ c.probed = c.max_steps
                      /\ c.clicks = 0 /\ c.writes = 0 /\ scroll_store = scroll_prev

\* the scan of the latest search found the icon
ScanHit == find_call.tank_id # "none" /\ find_call.scanned /\ find_call.found

\* C28: a search replays a positive saved count and returns (True, saved)
\* without a write on a hit there; otherwise the scan from the top returns
\* (True, k) at the first hit or (False, max_steps) without a write; after a
\* hit of the scan at step k the file holds k.
C28_ScanPersistsStep ==
    /\ SearchOutcome
    /\ ScanHit => scroll_store = [scroll_prev EXCEPT ![find_call.tank_id] = find_call.used]

\* C28 as the code has it: the same, but a hit of the scan at step k goes
\* through _write_scroll_count: the file holds k when no positive count was
\* saved or k is below the saved count, and keeps a saved count below k.
C28_ScanPersistsMinimum ==
    /\ SearchOutcome
    /\ ScanHit =>
          LET saved == ReadScrollCount(scroll_prev, find_call.tank_id)
              kept == IF saved = 0 \/ find_call.used < saved THEN find_call.used ELSE saved
          IN  /\ find_call.writes = 1
              /\ scroll_store = [scroll_prev EXCEPT ![find_call.tank_id] = kept]

C28_Witness ==
    /\ ScanHit
    /\ find_call.replayed = 1
    /\ find_call.used = 2
    /\ scroll_prev[find_call.tank_id] = 1
    /\ scroll_store[find_call.tank_id] = 1

(***************************************************************************)
(* Claims about the worker pools.                                          *)
(***************************************************************************)
\* the steps of worker_loop made inside the with-block of the lock
FmLocked == {"check", "open", "write", "count_read", "count_write", "left"}

\* what holds of the pool in every state
MailPoolSafe ==
    /\ \A w \in Workers : fm_pc[w] \in FmLocked => fm_lock = w
    /\ \A w \in fm_open : fm_lock = w
    /\ Cardinality(fm_open) <= 1
    /\ \A i, j \in 1..Len(fm_file) : i # j => fm_file[i] # fm_file[j]
    /\ (\A w \in Workers : fm_pc[w] \notin {"count_read", "count_write"})
          => fm_bought = Len(fm_file)
    /\ \A w \in Workers : fm_late[w] <= 1

\* C29: the workers write the output file and seen under the lock only: no
\* two of them have the file open at a time, no address is appended twice, and
\* bought is the number of lines appended; once stop_event is set (a duplicate
\* or a remaining count of 0 or less was seen) a worker appends at most the
\* purchase it had in flight, and every worker ends.
C29_PoolSharesUnderLock ==
    /\ []MailPoolSafe
    /\ fm_stop ~> (\A w \in Workers : fm_pc[w] = "done")

C29_Witness ==
    /\ fm_stop
    /\ \A w \in Workers : fm_pc[w] = "done"
    /\ Len(fm_file) = 3
    /\ fm_bought = 3
    /\ \E w \in Workers : fm_late[w] = 1

\* the steps of get_thread_proxy_raw made inside the with-block of proxy_lock
WgLocked == {"get", "next", "store", "unlock"}

\* the proxy next(proxy_cycle) gave thread t: in the map, or about to be stored
ProxyOf(t) == IF wg_map[t] # NoProxy THEN wg_map[t] ELSE wg_raw[t]

\* C30: with a list of proxies, every call of get_thread_proxy_raw returns a
\* proxy, and to one thread always the same one; the i-th thread to ask for
\* the first time gets entry ((i - 1) mod n) + 1 of the list of n proxies, each
\* thread being served by the cycle once; the map and the cycle are read and
\* written only by the thread that holds proxy_lock.
C30_RoundRobinPerThread ==
    wg_proxies # <<>> =>
      /\ \A t \in Threads :
            /\ Cardinality(wg_given[t]) <= 1
            /\ wg_given[t] \subseteq {wg_map[t]} \ {NoProxy}
            /\ wg_calls[t] > 0 => wg_given[t] # {}
            /\ wg_pc[t] \in WgLocked => wg_plock = t
      /\ \A i \in 1..Len(wg_first) :
            ProxyOf(wg_first[i]) = wg_proxies[((i - 1) % Len(wg_proxies)) + 1]
      /\ \A i, j \in 1..Len(wg_first) : i # j => wg_first[i] # wg_first[j]
      /\ \A t \in Threads : wg_map[t] # NoProxy => \E i \in 1..Len(wg_first) : wg_first[i] = t

C30_Witness ==
    /\ wg_proxies = <<"p1", "p2">>
    /\ Len(wg_first) = 3
    /\ wg_map[wg_first[1]] = "p1"
    /\ wg_map[wg_first[2]] = "p2"
    /\ wg_map[wg_first[3]] = "p1"
    /\ wg_calls[wg_first[2]] = 2
    /\ wg_given[wg_first[2]] = {"p2"}

(***************************************************************************)
(* Claims about the video switch, the final stage and the scene names.     *)
(***************************************************************************)
\* C31: a tick that classifies game_video (under either of its directory
\* names) while the phase is pre or tutorial and classification is not
\* paused ends in phase post with post_stage 1, the stage-0 handler of that
\* tick having sent the skip keys.
C31_VideoSwitchSkipsVideo ==
    (gpc = "loop" /\ ~classify_paused /\ phase \in {"pre", "tutorial"}) =>
        \A raw \in ClassifyResults(index), d \in 0..MaxTickSecs,
           tank_ok \in TankResults, reward_ok \in RewardResults :
            LET res == LoopBody(Locals, raw, clock, clock + d, tank_ok, reward_ok)
            IN  NormalizeState(raw) = "game_video" =>
                    /\ res.phase = "post"
                    /\ res.post_stage = 1
                    /\ res.branch = "stage0_video"

\* C32: _get_game_hwnd returns the cached handle only while IsWindow holds
\* of it; with a stale or empty cache it searches by title, returns what the
\* search finds and stores that (a handle or none) in the cache; after
\* _close_game the cache is empty, however it ended.
C32_HandleCache ==
    LET cache0 == hw_before[1]
        windows0 == hw_before[2]
        titled0 == hw_before[3]
        fresh == cache0 # NoHwnd /\ cache0 \in windows0
    IN  /\ hw_call \in {"get", "close"} =>
              /\ (fresh <=> ~hw_searched)
              /\ ~hw_searched => hw_ret = cache0
              /\ hw_searched => hw_ret \in (IF titled0 = {} THEN {NoHwnd} ELSE titled0)
        /\ hw_call = "get" => hwnd_cache = hw_ret
        /\ hw_call = "close" => hwnd_cache = NoHwnd

\* C32 witness: a call found the cached handle stale, searched again and
\* cached another window
C32_Witness ==
    /\ hw_call = "get"
    /\ hw_before[1] # NoHwnd
    /\ hw_before[1] \notin hw_before[2]
    /\ hw_searched
    /\ hwnd_cache \notin {NoHwnd, hw_before[1]}

\* C32 witness of the close: _close_game left an empty cache although the
\* window survived every attempt
C32_CloseSurvived ==
    /\ hw_call = "close"
    /\ hw_end = "survived"
    /\ hw_before[1] # NoHwnd
    /\ hwnd_cache = NoHwnd

\* C33: in phase post a tick that classifies a final scene ends at post_stage
\* 7 whatever the stage was, and starts the grace wait on that tick, or, when
\* the tick was a stuck recovery, on the next tick that classifies the scene.
C33_FinalSceneFromEveryStage ==
    (gpc = "loop" /\ ~classify_paused /\ phase = "post") =>
        \A raw \in ClassifyResults(index), d \in 0..MaxTickSecs,
           tank_ok \in TankResults, reward_ok \in RewardResults :
            LET res == LoopBody(Locals, raw, clock, clock + d, tank_ok, reward_ok)
                nxt == LoopBody([res EXCEPT !.branch = "none"], raw, clock + d + 1,
                                clock + d + 1, tank_ok, reward_ok)
            IN  NormalizeState(raw) \in FinalScenes =>
                    /\ res.post_stage = 7
                    /\ res.branch # "recovery" => res.final_wait_start # 0
                    /\ res.branch = "recovery" => nxt.final_wait_start # 0

\* C34: chosen_tanks grows only by is7 at stage 2 and then by fv4005 at stage
\* 42, so fv4005 in the list has is7 before it; stage 42 is entered only from
\* stage 4, stage 4 only from stage 33 once REWARD_WAIT_SECS have passed since
\* the reward click, and stage 33 only from stage 32 by a tick that clicked
\* the reward button.
C34_RewardsSequential ==
    /\ [](chosen_tanks \in {<<>>, <<"is7">>, <<"is7", "fv4005">>})
    /\ [][/\ chosen_tanks' # chosen_tanks =>
               \/ /\ chosen_tanks = <<>>
                  /\ chosen_tanks' = <<"is7">>
                  /\ post_stage = 2
               \/ /\ chosen_tanks = <<"is7">>
                  /\ chosen_tanks' = <<"is7", "fv4005">>
                  /\ post_stage = 42
          /\ (post_stage' = 42 /\ post_stage # 42) => post_stage = 4
          /\ (post_stage' = 4 /\ post_stage # 4) =>
               /\ post_stage = 33
               /\ clock - reward_click_time >= REWARD_WAIT_SECS
          /\ (post_stage' = 33 /\ post_stage # 33) =>
               /\ post_stage = 32
               /\ branch' = "stage32_clicked"
               /\ reward_click_time' = clock']_vars

\* C34 witness: fv4005 was just appended after is7
C34_Witness ==
    /\ branch = "stage42_selected"
    /\ chosen_tanks = <<"is7", "fv4005">>
    /\ post_stage = 51

\* C35: a tick that ends in the stuck recovery sets state_repeat_count to 0
\* and leaves phase, post_stage, classify_paused, the grace timer, the reward
\* timer, chosen_tanks, the success flag and last_state_seen as they were; the
\* loop goes on, no stage handler having run.
C35_RecoveryChangesCounterOnly ==
    [][(last_tick' # last_tick /\ branch' = "recovery") =>
          /\ state_repeat_count' = 0
          /\ state_repeat_count = STUCK_THRESHOLD - 1
          /\ phase' = phase
          /\ post_stage' = post_stage
          /\ classify_paused' = classify_paused
          /\ final_wait_start' = final_wait_start
          /\ reward_click_time' = reward_click_time
          /\ chosen_tanks' = chosen_tanks
          /\ reached_ungar' = reached_ungar
          /\ last_state_seen' = last_state_seen
          /\ gpc' = "loop"]_vars

\* C35 witness: a recovery on game_video, a scene without a recovery input,
\* at a stage whose handler would have acted on it
C35_Witness ==
    /\ branch = "recovery"
    /\ last_state_seen = "game_video"
    /\ state_repeat_count = 0
    /\ phase = "post"
    /\ post_stage = 1

\* C36: the phase is tutorial exactly when classification is paused; the
\* pause begins only on a game_tutorial1 tick, and the first executed tick
\* after it clicks the confirmation (branch paused_confirm), resumes
\* classification and sets phase post, leaving post_stage, the timers, the
\* chosen tanks and the stuck detector's state as they were.
C36_TutorialIffPaused ==
    /\ [](phase = "tutorial" <=> classify_paused)
    /\ [][/\ (classify_paused /\ last_tick' # last_tick /\ branch' # "no_capture") =>
               /\ branch' = "paused_confirm"
               /\ ~classify_paused'
               /\ phase' = "post"
               /\ UNCHANGED <<post_stage, reward_click_time, final_wait_start, chosen_tanks,
                              reached_ungar, last_state_seen, state_repeat_count>>
          /\ (classify_paused' /\ ~classify_paused) => branch' = "tutorial1"
          /\ (classify_paused' /\ classify_paused) => last_tick' = last_tick \/ branch' = "no_capture"]_vars

\* C36 witness: the tick after the pause confirmed the skip and resumed
C36_Witness ==
    /\ branch = "paused_confirm"
    /\ phase = "post"
    /\ ~classify_paused
    /\ last_state_seen = "game_tutorial1"

\* C37: _close_game has been called once when the flow has succeeded and
\* never otherwise, so never in a run that the budget or the stop hotkey
\* ended; the call happens on a tick at stage 7 that classifies a final scene
\* GRACE_SECS or more after the wait began, and the same tick sets
\* reached_ungar and leaves the loop.
C37_CloseOnlyOnSuccess ==
    /\ [](closes = IF reached_ungar THEN 1 ELSE 0)
    /\ [](loop_end \in {"budget", "stop"} => closes = 0)
    /\ [][closes' # closes =>
             /\ closes = 0
             /\ closes' = 1
             /\ post_stage = 7
             /\ final_wait_start # 0
             /\ clock - final_wait_start >= GRACE_SECS
             /\ term_held'
             /\ branch' = "stage7_success"
             /\ ~reached_ungar
             /\ reached_ungar'
             /\ gpc' = "after_loop"
             /\ loop_end' = "final"]_vars

\* C37 witness: a run that closed the game once and exited with success
C37_Witness ==
    /\ closes = 1
    /\ gpc = "exited"
    /\ loop_end = "final"
    /\ exit_code = 0

\* C37 witness of the other runs: the budget ended the loop during the grace
\* wait, and the game was not closed
C37_BudgetLeavesGameOpen ==
    /\ closes = 0
    /\ gpc = "exited"
    /\ loop_end = "budget"
    /\ final_wait_start # 0

\* C38: a tick that classifies a scene under its directory name without the
\* game_ prefix ends exactly as the same tick would under the prefixed name
\* (same phase, stage, timers, chosen tanks and branch), and a tick that
\* classifies a name that is no game scene changes no local variable and takes
\* the non_game branch, which sends no input.
C38_AliasesConsistent ==
    (gpc = "loop" /\ ~classify_paused) =>
        \A raw \in ClassifyResults(index), d \in 0..MaxTickSecs,
           tank_ok \in TankResults, reward_ok \in RewardResults :
            /\ (raw # NoMatch /\ NormalizeState(raw) # NoScene) =>
                   LoopBody(Locals, raw, clock, clock + d, tank_ok, reward_ok)
                     = LoopBody(Locals, NormalizeState(raw), clock, clock + d, tank_ok, reward_ok)
            /\ (raw # NoMatch /\ NormalizeState(raw) = NoScene) =>
                   LoopBody(Locals, raw, clock, clock + d, tank_ok, reward_ok)
                     = At(Locals, "non_game")

\* C38, the second half alone: a name that is no game scene changes nothing
C38_NonGameIgnored ==
    (gpc = "loop" /\ ~classify_paused) =>
        \A raw \in ClassifyResults(index) \cap LauncherScenes, d \in 0..MaxTickSecs,
           tank_ok \in TankResults, reward_ok \in RewardResults :
            LoopBody(Locals, raw, clock, clock + d, tank_ok, reward_ok) = At(Locals, "non_game")

====
